---- MODULE Spec2Model ----
(***************************************************************************)
(* A model of the timestep-alignment and merge engine of the ERA5 data     *)
(* processor (src/conbine.py): filename identity extraction, date-time     *)
(* parsing, time filtering, grouping into (pl, sl, tp) triples, flattening *)
(* of the variables and writing of the combined record.                    *)
(*                                                                         *)
(* Strings are modelled as sequences of one-character strings, so that     *)
(* split, join, isdigit, strptime and the f-string formatting are computed *)
(* character by character, as the code computes them.                      *)
(***************************************************************************)
EXTENDS Integers, Sequences, FiniteSets, TLC

\* Python's None where a string is expected: no string of characters equals it
None == <<"None">>

\* Python's None where a datetime is expected
NoneDt == <<>>

(***************************************************************************)
(* Characters and strings                                                  *)
(***************************************************************************)

\* str.isdigit() on one character (ASCII digits)
Digits == {"0", "1", "2", "3", "4", "5", "6", "7", "8", "9"}

\* int() of one decimal digit
DigitVal(c) ==
    CASE c = "0" -> 0 [] c = "1" -> 1 [] c = "2" -> 2 [] c = "3" -> 3
      [] c = "4" -> 4 [] c = "5" -> 5 [] c = "6" -> 6 [] c = "7" -> 7
      [] c = "8" -> 8 [] c = "9" -> 9

\* the character of one decimal digit
DigitChar(d) == <<"0", "1", "2", "3", "4", "5", "6", "7", "8", "9">>[d + 1]

\* str(n) for a natural number n: its decimal digits, most significant first
RECURSIVE Str(_)
Str(n) == IF n < 10 THEN <<DigitChar(n)>> ELSE Str(n \div 10) \o <<DigitChar(n % 10)>>

\* int(s) for a string of decimal digits
RECURSIVE IntOf(_)
IntOf(s) == IF s = <<>> THEN 0 ELSE 10 * IntOf(SubSeq(s, 1, Len(s) - 1)) + DigitVal(s[Len(s)])

\* the characters the model's file names and time strings use, in code point order
AsciiOrder ==
    <<" ", "-", ".", "0", "1", "2", "3", "4", "5", "6", "7", "8", "9", ":", "_",
      "a", "b", "c", "d", "e", "f", "g", "h", "i", "j", "k", "l", "m", "n", "o",
      "p", "q", "r", "s", "t", "u", "v", "w", "x", "y", "z">>

\* ord(c), up to an order-preserving renumbering
Ord(c) == CHOOSE i \in 1..Len(AsciiOrder) : AsciiOrder[i] = c

\* Python's s < t on strings: lexicographic by code point, a proper prefix first
RECURSIVE StrLess(_, _)
StrLess(s, t) ==
    IF t = <<>> THEN FALSE
    ELSE IF s = <<>> THEN TRUE
    ELSE IF s[1] # t[1] THEN Ord(s[1]) < Ord(t[1])
    ELSE StrLess(Tail(s), Tail(t))

\* str.isdigit(): non-empty and every character a digit
isdigit(s) == Len(s) > 0 /\ \A i \in 1..Len(s) : s[i] \in Digits

\* str.endswith(suffix)
endswith(s, suffix) ==
    Len(s) >= Len(suffix) /\ SubSeq(s, Len(s) - Len(suffix) + 1, Len(s)) = suffix

\* str.split(sep) for a one-character separator: the list of the (possibly empty)
\* tokens between the separators
RECURSIVE split(_, _)
split(s, sep) ==
    IF \A i \in 1..Len(s) : s[i] # sep THEN <<s>>
    ELSE LET k == CHOOSE i \in 1..Len(s) : s[i] = sep /\ \A j \in 1..(i - 1) : s[j] # sep
         IN  <<SubSeq(s, 1, k - 1)>> \o split(SubSeq(s, k + 1, Len(s)), sep)

\* sep.join(parts)
RECURSIVE join(_, _)
join(parts, sep) ==
    IF parts = <<>> THEN <<>>
    ELSE IF Len(parts) = 1 THEN parts[1]
    ELSE parts[1] \o <<sep>> \o join(Tail(parts), sep)

(***************************************************************************)
(* extract_datetime_from_filename                                          *)
(***************************************************************************)

\* the last token of parts that has n characters, all digits, else None: the
\* for loop over parts, in which a later match overwrites an earlier one.  An
\* 8-character token is tested by the if, a 4-character one by the elif.
LastDigitToken(parts, n) ==
    LET hits == {i \in 1..Len(parts) : Len(parts[i]) = n /\ isdigit(parts[i])}
    IN  IF hits = {} THEN None
        ELSE parts[CHOOSE i \in hits : \A j \in hits : j <= i]

\* extract_datetime_from_filename with the key formatted without its separator
extract_no_separator(name) ==
    LET parts     == split(name, "_")
        date_part == LastDigitToken(parts, 8)
        time_part == LastDigitToken(parts, 4)
    IN  IF date_part # None /\ time_part # None
        THEN date_part \o time_part
        ELSE IF endswith(name, <<"_", "p", "l">>) \/ endswith(name, <<"_", "s", "l">>)
                  \/ endswith(name, <<"_", "t", "p">>)
             THEN join(SubSeq(parts, 1, Len(parts) - 1), "_")
             ELSE name

\* extract_datetime_from_filename with the suffix tested without its underscore
extract_loose_suffix(name) ==
    LET parts     == split(name, "_")
        date_part == LastDigitToken(parts, 8)
        time_part == LastDigitToken(parts, 4)
    IN  IF date_part # None /\ time_part # None
        THEN date_part \o <<"_">> \o time_part
        ELSE IF endswith(name, <<"p", "l">>) \/ endswith(name, <<"s", "l">>)
                  \/ endswith(name, <<"t", "p">>)
             THEN join(SubSeq(parts, 1, Len(parts) - 1), "_")
             ELSE name

\* extract_datetime_from_filename(filename), given name = filename.stem
extract_datetime_from_filename(name) ==
    LET parts     == split(name, "_")
        date_part == LastDigitToken(parts, 8)
        time_part == LastDigitToken(parts, 4)
    IN  IF date_part # None /\ time_part # None
        THEN date_part \o <<"_">> \o time_part
        ELSE IF endswith(name, <<"_", "p", "l">>) \/ endswith(name, <<"_", "s", "l">>)
                  \/ endswith(name, <<"_", "t", "p">>)
             THEN join(SubSeq(parts, 1, Len(parts) - 1), "_")
             ELSE name

(***************************************************************************)
(* datetime.strptime                                                       *)
(*                                                                         *)
(* A format is a sequence of elements: a directive ("Y", "m", "d", "H",    *)
(* "M"), a literal character, or white space.  strptime compiles the       *)
(* format to a regular expression, takes the first match from the start of *)
(* the string in the order of its alternatives (with backtracking), and    *)
(* raises ValueError when there is no match, when text remains after the   *)
(* match, or when the fields are no calendar date.                         *)
(***************************************************************************)

Dir(c) == [t |-> "dir", c |-> c]
Lit(c) == [t |-> "lit", c |-> c]
WS == [t |-> "ws", c |-> " "]

\* "%Y%m%d_%H%M"
FmtKey == <<Dir("Y"), Dir("m"), Dir("d"), Lit("_"), Dir("H"), Dir("M")>>
\* "%Y%m%d_%H00"
FmtKey00 == <<Dir("Y"), Dir("m"), Dir("d"), Lit("_"), Dir("H"), Lit("0"), Lit("0")>>
\* "%Y-%m-%d %H:%M"
FmtHuman ==
    <<Dir("Y"), Lit("-"), Dir("m"), Lit("-"), Dir("d"), WS, Dir("H"), Lit(":"), Dir("M")>>

\* whether the text w matches one alternative of directive c's pattern:
\*   Y: \d\d\d\d          m: 1[0-2]|0[1-9]|[1-9]
\*   d: 3[01]|[12]\d|0[1-9]|[1-9]| [1-9]
\*   H: 2[0-3]|[0-1]\d|\d M: [0-5]\d|\d
DirMatches(c, w) ==
    LET n == Len(w) IN
    CASE c = "Y" -> n = 4 /\ isdigit(w)
      [] c = "m" -> \/ n = 2 /\ w[1] = "1" /\ w[2] \in {"0", "1", "2"}
                    \/ n = 2 /\ w[1] = "0" /\ w[2] \in Digits \ {"0"}
                    \/ n = 1 /\ w[1] \in Digits \ {"0"}
      [] c = "d" -> \/ n = 2 /\ w[1] = "3" /\ w[2] \in {"0", "1"}
                    \/ n = 2 /\ w[1] \in {"1", "2"} /\ w[2] \in Digits
                    \/ n = 2 /\ w[1] = "0" /\ w[2] \in Digits \ {"0"}
                    \/ n = 1 /\ w[1] \in Digits \ {"0"}
                    \/ n = 2 /\ w[1] = " " /\ w[2] \in Digits \ {"0"}
      [] c = "H" -> \/ n = 2 /\ w[1] = "2" /\ w[2] \in {"0", "1", "2", "3"}
                    \/ n = 2 /\ w[1] \in {"0", "1"} /\ w[2] \in Digits
                    \/ n = 1 /\ w[1] \in Digits
      [] c = "M" -> \/ n = 2 /\ w[1] \in {"0", "1", "2", "3", "4", "5"} /\ w[2] \in Digits
                    \/ n = 1 /\ w[1] \in Digits

\* the lengths a directive may consume, in the order the expression tries them:
\* for every directive the alternatives of two characters exclude one another
\* and come before the alternative of one character
DirLengths(c) == IF c = "Y" THEN <<4>> ELSE <<2, 1>>

\* the number of white space characters of s from position pos on
RECURSIVE SpaceRun(_, _)
SpaceRun(s, pos) == IF pos <= Len(s) /\ s[pos] = " " THEN 1 + SpaceRun(s, pos + 1) ELSE 0

\* the value of a matched field (" 7" is 7)
FieldVal(w) == IF w[1] = " " THEN IntOf(Tail(w)) ELSE IntOf(w)

NoMatch == [ok |-> FALSE, end |-> 0, f |-> <<>>]

\* the first match of fmt[i..] against s from position pos on, f being the fields
\* matched so far: [ok, end (the position after the match), f]
RECURSIVE Match(_, _, _, _, _)
RECURSIVE MatchAlt(_, _, _, _, _, _, _)
\* tries the lengths lens[k..] for element fmt[i]
MatchAlt(s, pos, fmt, i, f, lens, k) ==
    IF k > Len(lens) THEN NoMatch
    ELSE LET n    == lens[k]
             w    == IF pos + n - 1 <= Len(s) THEN SubSeq(s, pos, pos + n - 1) ELSE <<>>
             e    == fmt[i]
             fits == /\ Len(w) = n
                     /\ IF e.t = "dir" THEN DirMatches(e.c, w) ELSE TRUE
             rest == IF fits
                     THEN Match(s, pos + n, fmt, i + 1,
                                IF e.t = "dir" THEN f \o <<<<e.c, FieldVal(w)>>>> ELSE f)
                     ELSE NoMatch
         IN  IF rest.ok THEN rest ELSE MatchAlt(s, pos, fmt, i, f, lens, k + 1)
Match(s, pos, fmt, i, f) ==
    IF i > Len(fmt) THEN [ok |-> TRUE, end |-> pos, f |-> f]
    ELSE LET e == fmt[i] IN
         CASE e.t = "dir" -> MatchAlt(s, pos, fmt, i, f, DirLengths(e.c), 1)
           [] e.t = "lit" -> IF pos <= Len(s) /\ s[pos] = e.c
                             THEN Match(s, pos + 1, fmt, i + 1, f) ELSE NoMatch
           \* \s+ : greedy, giving characters back one by one
           [] e.t = "ws"  -> LET r == SpaceRun(s, pos)
                             IN  MatchAlt(s, pos, fmt, i, f, [j \in 1..r |-> r + 1 - j], 1)

\* the value of field c among the matched fields f, else its default
Field(f, c, default) ==
    IF \E j \in 1..Len(f) : f[j][1] = c
    THEN f[CHOOSE j \in 1..Len(f) : f[j][1] = c][2]
    ELSE default

IsLeap(y) == (y % 4 = 0 /\ y % 100 # 0) \/ y % 400 = 0

DaysInMonth(y, m) ==
    IF m = 2 THEN (IF IsLeap(y) THEN 29 ELSE 28)
    ELSE IF m \in {4, 6, 9, 11} THEN 30 ELSE 31

\* datetime.strptime(s, fmt): the datetime <<year, month, day, hour, minute>>, or
\* NoneDt where Python raises ValueError
strptime(s, fmt) ==
    LET r == Match(s, 1, fmt, 1, <<>>) IN
    IF ~r.ok \/ r.end # Len(s) + 1 THEN NoneDt
    ELSE LET y  == Field(r.f, "Y", 1900)
             mo == Field(r.f, "m", 1)
             d  == Field(r.f, "d", 1)
             h  == Field(r.f, "H", 0)
             mi == Field(r.f, "M", 0)
         IN  IF y >= 1 /\ d <= DaysInMonth(y, mo) THEN <<y, mo, d, h, mi>> ELSE NoneDt

\* a < b on datetimes
RECURSIVE TupleLess(_, _)
TupleLess(a, b) ==
    IF a = <<>> THEN FALSE
    ELSE IF a[1] # b[1] THEN a[1] < b[1]
    ELSE TupleLess(Tail(a), Tail(b))
DtLess(a, b) == TupleLess(a, b)

\* parse_datetime_string(datetime_str): "%Y%m%d_%H%M", then "%Y%m%d_%H00", then None
parse_datetime_string(datetime_str) ==
    IF strptime(datetime_str, FmtKey) # NoneDt THEN strptime(datetime_str, FmtKey)
    ELSE strptime(datetime_str, FmtKey00)

\* the parse of a start or end bound in merge_data: "%Y-%m-%d %H:%M", then
\* "%Y%m%d_%H%M"; NoneDt where both raise ValueError
ParseBound(time_str) ==
    IF strptime(time_str, FmtHuman) # NoneDt THEN strptime(time_str, FmtHuman)
    ELSE strptime(time_str, FmtKey)

(***************************************************************************)
(* Arrays and datasets                                                     *)
(*                                                                         *)
(* An array is [ndim, v]: v is a number-like value when ndim = 0 and else  *)
(* the sequence of its ndim-1 dimensional sub-arrays along axis 0.  Every  *)
(* axis of the arrays of the model has at least one element.               *)
(***************************************************************************)

\* ndarray.shape
RECURSIVE ShapeOf(_, _)
ShapeOf(v, ndim) == IF ndim = 0 THEN <<>> ELSE <<Len(v)>> \o ShapeOf(v[1], ndim - 1)
Shape(a) == ShapeOf(a.v, a.ndim)

\* the array of the given shape whose element at index path p is tag \o p, so
\* that every element of every source array is told from every other
RECURSIVE MkArr(_, _)
MkArr(shape, tag) ==
    IF shape = <<>> THEN tag
    ELSE [i \in 1..shape[1] |-> MkArr(Tail(shape), tag \o <<i>>)]

\* the size of dimension dim in a file
DimSize(desc, dim) ==
    CASE dim = "time" -> desc.T [] dim = "level" -> desc.L
      [] dim = "latitude" -> desc.H [] dim = "longitude" -> desc.W

\* xr.open_dataset(file): the file's content is given by its descriptor desc =
\* [exists, seed, T, L, H, W, vars], vars being the data variables in file order,
\* each [name, dims].  data_vars is the ordered mapping name -> values, latitude and
\* longitude are the coordinate values.
open_dataset(desc) ==
    [data_vars |->
        [i \in 1..Len(desc.vars) |->
            [name |-> desc.vars[i].name,
             data |-> [ndim |-> Len(desc.vars[i].dims),
                       v    |-> MkArr([k \in 1..Len(desc.vars[i].dims) |->
                                          DimSize(desc, desc.vars[i].dims[k])],
                                      <<desc.seed, i>>)]]],
     latitude  |-> [i \in 1..desc.H |-> i],
     longitude |-> [j \in 1..desc.W |-> j]]

\* list(ds.data_vars.keys())
\* the descriptor of a path that names no file: opening it raises
NoFile == [exists |-> FALSE, seed |-> 0, T |-> 1, L |-> 1, H |-> 1, W |-> 1, vars |-> <<>>]

VarNames(ds) == [i \in 1..Len(ds.data_vars) |-> ds.data_vars[i].name]

(***************************************************************************)
(* merge_data: flattening of one complete group (the try block)            *)
(***************************************************************************)

\* pressure_levels with 850 and 925 exchanged
pressure_levels_swapped ==
    <<50, 100, 150, 200, 250, 300, 400, 500, 600, 700, 925, 850, 1000>>

\* pressure_levels
pressure_levels == <<50, 100, 150, 200, 250, 300, 400, 500, 600, 700, 850, 925, 1000>>

\* the state of the try block: exc is the exception raised ("" while none is)
Try0 == [exc |-> "", all_data |-> <<>>, var_names |-> <<>>]

Raise(st, e) == [st EXCEPT !.exc = e]

\* data.squeeze(0) raises ValueError unless axis 0 has size 1
CanSqueeze0(a) == Len(a.v) = 1
squeeze0(a) == [ndim |-> a.ndim - 1, v |-> a.v[1]]

\* the loop "for level_idx in range(data.shape[0])": appends slice level_idx and
\* the name {var}{pressure}; pressure_levels[level_idx] raises IndexError beyond
\* the list (level_idx is 1-based here)
RECURSIVE LevelLoop(_, _, _, _)
LevelLoop(st, var, data, level_idx) ==
    IF level_idx > Len(data.v) THEN st
    ELSE IF level_idx > Len(pressure_levels) THEN Raise(st, "IndexError")
    ELSE LevelLoop([st EXCEPT !.all_data = @ \o <<[ndim |-> data.ndim - 1,
                                                   v |-> data.v[level_idx]]>>,
                              !.var_names = @ \o <<var \o Str(pressure_levels[level_idx])>>],
                   var, data, level_idx + 1)

\* one iteration of "for var in pl_vars": a 4-D variable is squeezed and split by
\* level; a variable of any other dimensionality appends nothing
PLVar(st, var) ==
    IF var.data.ndim = 4
    THEN IF CanSqueeze0(var.data)
         THEN LevelLoop(st, var.name, squeeze0(var.data), 1)
         ELSE Raise(st, "ValueError")
    ELSE st

\* one iteration of "for var in sl_vars" and of "for var in tp_vars": a 3-D
\* variable is squeezed, any other is appended as it is
SurfaceVar(st, var) ==
    IF var.data.ndim = 3 /\ ~CanSqueeze0(var.data) THEN Raise(st, "ValueError")
    ELSE [st EXCEPT !.all_data = @ \o <<IF var.data.ndim = 3 THEN squeeze0(var.data)
                                        ELSE var.data>>,
                    !.var_names = @ \o <<var.name>>]

\* the for loops over the variables of one file, stopping at the first exception
RECURSIVE PLLoop(_, _, _)
PLLoop(st, vars, i) ==
    IF i > Len(vars) \/ st.exc # "" THEN st ELSE PLLoop(PLVar(st, vars[i]), vars, i + 1)

RECURSIVE SurfaceLoop(_, _, _)
SurfaceLoop(st, vars, i) ==
    IF i > Len(vars) \/ st.exc # "" THEN st
    ELSE SurfaceLoop(SurfaceVar(st, vars[i]), vars, i + 1)

\* np.stack(all_data, axis=0) raises ValueError for an empty list and for arrays
\* of different shapes
CanStack(all_data) ==
    /\ all_data # <<>>
    /\ \A i \in 1..Len(all_data) :
          all_data[i].ndim = all_data[1].ndim /\ Shape(all_data[i]) = Shape(all_data[1])

\* xr.Dataset(data_vars, coords) raises ValueError unless every merged[i] is 2-D
\* of the sizes of the latitude and longitude coordinates
CanBuildDataset(all_data, coords) ==
    \A i \in 1..Len(all_data) :
        /\ all_data[i].ndim = 2
        /\ Shape(all_data[i]) = <<Len(coords.latitude), Len(coords.longitude)>>

\* the dict built by "for i, var_name in enumerate(var_names): data_vars[var_name]
\* = (dims, merged[i])", as the sequence of its items: assigning to a key the dict
\* holds keeps the key's place and replaces its value
RECURSIVE DictFill(_, _, _, _)
DictFill(items, var_names, merged, i) ==
    IF i > Len(var_names) THEN items
    ELSE LET at == {j \in 1..Len(items) : items[j].name = var_names[i]}
             it == [name |-> var_names[i], data |-> merged[i]]
         IN  DictFill(IF at = {} THEN items \o <<it>>
                      ELSE [items EXCEPT ![CHOOSE j \in at : TRUE] = it],
                      var_names, merged, i + 1)

\* ', '.join(names)
RECURSIVE CommaJoin(_)
CommaJoin(names) ==
    IF names = <<>> THEN <<>>
    ELSE IF Len(names) = 1 THEN names[1]
    ELSE names[1] \o <<",", " ">> \o CommaJoin(Tail(names))

\* the output file named by the date alone
OutputFile_date_only(datetime_str) ==
    <<"e", "r", "a", "5", "_">> \o SubSeq(datetime_str, 1, 8) \o <<".", "n", "c">>

\* output_dir / f"era5_{datetime_str}.nc"
OutputFile(datetime_str) == <<"e", "r", "a", "5", "_">> \o datetime_str \o <<".", "n", "c">>

\* what the environment does to the file operations of one group: nothing, or
\* the failure (an OSError) of one of them.  A failing write leaves no file
\* ("write_fail") or a truncated one ("write_partial").
IOOutcomes == {"ok", "open_pl", "open_sl", "open_tp", "write_fail", "write_partial", "verify"}

\* a truncated output file
Truncated == [valid |-> FALSE, data_vars |-> <<>>, coords |-> <<>>, attrs |-> <<>>]

\* what the try block computes for the group of key datetime_str whose files have
\* the contents pl, sl and tp (descriptors), were no file operation to fail: the
\* state of the flat lists after each of the three loops, whether np.stack and
\* xr.Dataset succeed, and the dataset handed to to_netcdf
TryBlock(datetime_str, pl, sl, tp) ==
    LET ds_pl == open_dataset(pl)
        ds_sl == open_dataset(sl)
        ds_tp == open_dataset(tp)
        s1 == PLLoop(Try0, ds_pl.data_vars, 1)
        s2 == SurfaceLoop(s1, ds_sl.data_vars, 1)
        s3 == SurfaceLoop(s2, ds_tp.data_vars, 1)
        coords == [latitude |-> ds_pl.latitude, longitude |-> ds_pl.longitude]
        built == s3.exc = "" /\ CanStack(s3.all_data) /\ CanBuildDataset(s3.all_data, coords)
    IN  [found |-> {k \in {"pl", "sl", "tp"} :
                        (CASE k = "pl" -> pl [] k = "sl" -> sl [] k = "tp" -> tp).exists},
         s1 |-> s1, s2 |-> s2, s3 |-> s3, built |-> built,
         merged_ds |->
            IF ~built THEN Truncated
            ELSE [valid |-> TRUE,
                  data_vars |-> DictFill(<<>>, s3.var_names, s3.all_data, 1),
                  coords |-> coords,
                  attrs |-> [total_variables |-> Len(s3.var_names),
                             pressure_levels |->
                                CommaJoin([i \in 1..Len(pressure_levels) |->
                                              Str(pressure_levels[i])]),
                             pl_variables |-> CommaJoin(VarNames(ds_pl)),
                             sl_variables |-> CommaJoin(VarNames(ds_sl)),
                             tp_variables |-> CommaJoin(VarNames(ds_tp)),
                             variable_list |-> CommaJoin(s3.var_names),
                             datetime |-> datetime_str]]]

\* TryGroup with the output file created before the flatten step and filled as
\* the slices come: a failure after the pressure-level file leaves a partial file
TryGroup_write_early(b, io) ==
    LET res(exc, hit, opened, st, file) ==
            [exc |-> exc, opened |-> opened,
             hit |-> hit,
             flat |-> opened = {"pl", "sl", "tp"} /\ st.exc = "",
             closed |-> IF exc = "" THEN opened ELSE {},
             var_names |-> st.var_names,
             file |-> file,
             verify_n |-> IF exc = "" THEN Len(b.merged_ds.data_vars) ELSE 0]
        all == {"pl", "sl", "tp"}
    IN  IF io = "open_pl" THEN res("OSError", TRUE, {}, Try0, "none")
        ELSE IF "pl" \notin b.found THEN res("OSError", FALSE, {}, Try0, "none")
        ELSE IF b.s1.exc # "" THEN res(b.s1.exc, FALSE, {"pl"}, b.s1, "none")
        ELSE IF io = "open_sl" THEN res("OSError", TRUE, {"pl"}, b.s1, "partial")
        ELSE IF "sl" \notin b.found THEN res("OSError", FALSE, {"pl"}, b.s1, "none")
        ELSE IF b.s2.exc # "" THEN res(b.s2.exc, FALSE, {"pl", "sl"}, b.s2, "partial")
        ELSE IF io = "open_tp" THEN res("OSError", TRUE, {"pl", "sl"}, b.s2, "partial")
        ELSE IF "tp" \notin b.found THEN res("OSError", FALSE, {"pl", "sl"}, b.s2, "none")
        ELSE IF b.s3.exc # "" THEN res(b.s3.exc, FALSE, all, b.s3, "partial")
        ELSE IF ~b.built THEN res("ValueError", FALSE, all, b.s3, "partial")
        ELSE IF io = "write_fail" THEN res("OSError", TRUE, all, b.s3, "none")
        ELSE IF io = "write_partial" THEN res("OSError", TRUE, all, b.s3, "partial")
        ELSE IF io = "verify" THEN res("OSError", TRUE, all, b.s3, "written")
        ELSE res("", FALSE, all, b.s3, "written")

\* what the try block b does under the io outcome io, in the order of its
\* statements:
\*   exc      the exception that left the block ("" for none),
\*   hit      whether it is the failure of a file operation that io names,
\*   flat     whether the three loops over the variables completed,
\*   opened   the kinds whose source dataset was opened,
\*   closed   the kinds whose source dataset was closed,
\*   var_names   the list var_names as far as it was built,
\*   file     "none", "written" (to_netcdf returned) or "partial",
\*   verify_n    len(verify_ds.data_vars)
TryGroup(b, io) ==
    LET res(exc, hit, opened, st, file) ==
            [exc |-> exc, opened |-> opened,
             hit |-> hit,
             flat |-> opened = {"pl", "sl", "tp"} /\ st.exc = "",
             closed |-> IF exc = "" THEN opened ELSE {},
             var_names |-> st.var_names,
             file |-> file,
             verify_n |-> IF exc = "" THEN Len(b.merged_ds.data_vars) ELSE 0]
        all == {"pl", "sl", "tp"}
    IN  IF io = "open_pl" THEN res("OSError", TRUE, {}, Try0, "none")
        ELSE IF "pl" \notin b.found THEN res("OSError", FALSE, {}, Try0, "none")
        ELSE IF b.s1.exc # "" THEN res(b.s1.exc, FALSE, {"pl"}, b.s1, "none")
        ELSE IF io = "open_sl" THEN res("OSError", TRUE, {"pl"}, b.s1, "none")
        ELSE IF "sl" \notin b.found THEN res("OSError", FALSE, {"pl"}, b.s1, "none")
        ELSE IF b.s2.exc # "" THEN res(b.s2.exc, FALSE, {"pl", "sl"}, b.s2, "none")
        ELSE IF io = "open_tp" THEN res("OSError", TRUE, {"pl", "sl"}, b.s2, "none")
        ELSE IF "tp" \notin b.found THEN res("OSError", FALSE, {"pl", "sl"}, b.s2, "none")
        ELSE IF b.s3.exc # "" THEN res(b.s3.exc, FALSE, all, b.s3, "none")
        ELSE IF ~b.built THEN res("ValueError", FALSE, all, b.s3, "none")
        ELSE IF io = "write_fail" THEN res("OSError", TRUE, all, b.s3, "none")
        ELSE IF io = "write_partial" THEN res("OSError", TRUE, all, b.s3, "partial")
        ELSE IF io = "verify" THEN res("OSError", TRUE, all, b.s3, "written")
        ELSE res("", FALSE, all, b.s3, "written")

(***************************************************************************)
(* merge_data: scanning, time filtering and grouping                       *)
(***************************************************************************)

\* sorted(dir.glob("*.nc")): the stems of a directory's files, ordered by file name
RECURSIVE SortedStems(_)
SortedStems(S) ==
    IF S = {} THEN <<>>
    ELSE LET nm(x) == x \o <<".", "n", "c">>
             m == CHOOSE x \in S : \A y \in S \ {x} : StrLess(nm(x), nm(y))
         IN  <<m>> \o SortedStems(S \ {m})

\* the time filter with the end bound exclusive
InTimeRange_end_exclusive(file_dt, sdt, edt) ==
    /\ file_dt # NoneDt
    /\ ~(sdt # NoneDt /\ DtLess(file_dt, sdt))
    /\ ~(edt # NoneDt /\ ~DtLess(file_dt, edt))

\* the time filter skipping only a file that is outside both bounds
InTimeRange_both(file_dt, sdt, edt) ==
    /\ file_dt # NoneDt
    /\ ~(/\ sdt # NoneDt /\ DtLess(file_dt, sdt)
         /\ edt # NoneDt /\ DtLess(edt, file_dt))

\* the time filter of the scanning loops: a file whose key does not parse is left
\* out (if file_dt:), one before the start bound is skipped (if start_dt and
\* file_dt < start_dt: continue), and so is one after the end bound
InTimeRange(file_dt, sdt, edt) ==
    /\ file_dt # NoneDt
    /\ ~(sdt # NoneDt /\ DtLess(file_dt, sdt))
    /\ ~(edt # NoneDt /\ DtLess(edt, file_dt))

\* ScanLoop without the test `if file_dt:` of lines 167, 181 and 195: a file
\* whose key does not parse is appended with file_dt None
RECURSIVE ScanLoop_no_parse_test(_, _, _, _, _)
ScanLoop_no_parse_test(kind, files, i, sdt, edt) ==
    IF i > Len(files) THEN <<>>
    ELSE LET datetime_str == extract_datetime_from_filename(files[i])
             file_dt      == parse_datetime_string(datetime_str)
         IN  (IF file_dt = NoneDt \/ InTimeRange(file_dt, sdt, edt)
              THEN <<[kind |-> kind, file |-> files[i],
                      datetime_str |-> datetime_str, file_dt |-> file_dt]>>
              ELSE <<>>)
             \o ScanLoop_no_parse_test(kind, files, i + 1, sdt, edt)

\* one of the three scanning loops over the sorted files of a kind: the entries
\* (kind, file, datetime_str, file_dt) it appends to all_files
RECURSIVE ScanLoop(_, _, _, _, _)
ScanLoop(kind, files, i, sdt, edt) ==
    IF i > Len(files) THEN <<>>
    ELSE LET datetime_str == extract_datetime_from_filename(files[i])
             file_dt      == parse_datetime_string(datetime_str)
         IN  (IF InTimeRange(file_dt, sdt, edt) THEN <<[kind |-> kind, file |-> files[i],
                              datetime_str |-> datetime_str, file_dt |-> file_dt]>>
              ELSE <<>>)
             \o ScanLoop(kind, files, i + 1, sdt, edt)

NoFiles == [pl |-> None, sl |-> None, tp |-> None]

\* GroupLoop keyed by the date alone (the first eight characters of the key):
\* the timesteps of a day fall into one group
RECURSIVE GroupLoop_by_date(_, _, _)
GroupLoop_by_date(groups, files, i) ==
    IF i > Len(files) THEN groups
    ELSE LET e  == files[i]
             d  == SubSeq(e.datetime_str, 1, 8)
             at == {j \in 1..Len(groups) : groups[j].key = d}
             g1 == IF at = {} THEN groups \o <<[key |-> d, files |-> NoFiles]>>
                   ELSE groups
             j  == CHOOSE k \in 1..Len(g1) : g1[k].key = d
         IN  GroupLoop_by_date([g1 EXCEPT ![j].files[e.kind] = e.file], files, i + 1)

\* GroupLoop keeping the first file of a kind and key: a slot that is filled is
\* not assigned again
RECURSIVE GroupLoop_first_wins(_, _, _)
GroupLoop_first_wins(groups, files, i) ==
    IF i > Len(files) THEN groups
    ELSE LET e  == files[i]
             at == {j \in 1..Len(groups) : groups[j].key = e.datetime_str}
             g1 == IF at = {} THEN groups \o <<[key |-> e.datetime_str, files |-> NoFiles]>>
                   ELSE groups
             j  == CHOOSE k \in 1..Len(g1) : g1[k].key = e.datetime_str
         IN  GroupLoop_first_wins(
                 IF g1[j].files[e.kind] = None
                 THEN [g1 EXCEPT ![j].files[e.kind] = e.file]
                 ELSE g1,
                 files, i + 1)

\* the loop that fills date_groups from all_files.  The dict is the sequence of
\* its items [key, files] in insertion order.
RECURSIVE GroupLoop(_, _, _)
GroupLoop(groups, files, i) ==
    IF i > Len(files) THEN groups
    ELSE LET e  == files[i]
             at == {j \in 1..Len(groups) : groups[j].key = e.datetime_str}
             g1 == IF at = {} THEN groups \o <<[key |-> e.datetime_str, files |-> NoFiles]>>
                   ELSE groups
             j  == CHOOSE k \in 1..Len(g1) : g1[k].key = e.datetime_str
         IN  GroupLoop([g1 EXCEPT ![j].files[e.kind] = e.file], files, i + 1)

\* the completeness test without its tp clause
Incomplete_no_tp(files) == files.pl = None \/ files.sl = None

\* "files['pl'] is None or files['sl'] is None or files['tp'] is None"
Incomplete(files) == files.pl = None \/ files.sl = None \/ files.tp = None

\* a write that never replaces a file: a name that is taken gets a suffix
Put_new_name(f, k, v) ==
    LET name == IF k \in DOMAIN f THEN k \o <<"~">> ELSE k
    IN  [y \in DOMAIN f \cup {name} |-> IF y = name THEN v ELSE f[y]]

\* f with key k set to v: a dict assignment; for a directory, the file k is
\* created or replaced (to_netcdf opens it in mode "w")
Put(f, k, v) == [y \in DOMAIN f \cup {k} |-> IF y = k THEN v ELSE f[y]]

\* if start_time: / if end_time: (None and the empty string are false)
Given(time_str) == time_str # None /\ time_str # <<>>

VARIABLES
    pl_dir, sl_dir, tp_dir,   \* the input directories: file stem -> content descriptor
    start_time, end_time,     \* the arguments of merge_data (strings or None)
    output_dir,               \* the output directory: file name -> file
    pc,                       \* where merge_data is
    start_dt, end_dt,         \* the parsed bounds
    all_files,                \* the list all_files
    date_groups,              \* the dict date_groups
    group_idx,                \* the position of the loop over date_groups.items()
    processed_count,
    printed,                  \* what was printed, as events
    open_handles,             \* the source datasets opened and not closed
    written,                  \* the output files to_netcdf created in this run
    results,                  \* per processed group: what the try block did
    faults,                   \* the file operations that failed in this run
    fn_arg, fn_result         \* a call of extract_datetime_from_filename and its result

\* a second call of merge_data in the same process
VARIABLES
    run,                      \* 1 in the first call of merge_data, 2 in the second
    first_run                 \* what the first call left: its files, count and faults

\* ERA5AutomatedWorkflow (automated_era5_workflow.py)
VARIABLES
    start_year, start_month,  \* the configured range (0 for a bound that is None: both
                              \* are false in the test of line 396)
    end_year, end_month,
    base_dir,                 \* the names of the original files in the working directory
    pl_files,                 \* the months whose split files are in the pl directory
    wf_pc,                    \* where run_complete_workflow is
    download_list,
    wf_i,                     \* the loop variable i of line 564
    current_month,            \* (current_year, current_month)
    prev_downloaded_file,
    prev_month,               \* (prev_year, prev_month)
    current_downloaded_file,
    original_file,            \* self.original_file
    threads,                  \* the threads started, each with its state
    wf_log,                   \* what the workflow did, as events
    wf_faults                 \* the downloads and splits that failed in this run

\* one call of ERA5AutomatedWorkflow.split_data_to_pl_single_month
VARIABLES
    sp_pc,                    \* where the call is
    sp_file,                  \* its argument original_file (None, or a file name)
    sp_ym,                    \* its arguments year and month
    sp_log,                   \* the calls and returns of the two split methods
    wsl_success,              \* line 234 ("none" before)
    sp_i,                     \* i of the loop of line 323
    success_count, error_count,       \* lines 319-320
    sp_outputs,               \* the number of the month's timestep files in pl/
    sp_result,                \* what the call returned ("raise": it raised)
    sp_faults                 \* timesteps whose command did not leave a file

\* ERA5SLAutomatedWorkflow (automated_era5_sl_workflow.py)
VARIABLES
    sl_download_list,         \* download_list of its run_complete_workflow, and the
                              \* value its _generate_download_list returned
    sl_pc,                    \* where its run_complete_workflow is
    sl_i,                     \* the index of the month of the loop of line 377 (from 1)
    download_dir,             \* the archives in downloads/
    sl_todo,                  \* the .nc files of temp_extract not handled yet, by kind
    sl_log                    \* what the workflow did, in order

vars == <<pl_dir, sl_dir, tp_dir, start_time, end_time, output_dir, pc, start_dt, end_dt,
          all_files, date_groups, group_idx, processed_count, printed, open_handles,
          written, results, faults, fn_arg, fn_result, run, first_run,
          start_year, start_month, end_year, end_month, base_dir, pl_files, wf_pc,
          download_list, wf_i, current_month, prev_downloaded_file, prev_month,
          current_downloaded_file,
          original_file, threads, wf_log, wf_faults,
          sl_download_list, sl_pc, sl_i, download_dir, sl_todo, sl_log,
          sp_pc, sp_file, sp_ym, sp_log, wsl_success, sp_i, success_count, error_count,
          sp_outputs, sp_result, sp_faults>>

runvars == <<run, first_run>>

slvars == <<sl_download_list, sl_pc, sl_i, download_dir, sl_todo, sl_log>>

splitvars == <<sp_pc, sp_file, sp_ym, sp_log, wsl_success, sp_i, success_count, error_count,
               sp_outputs, sp_result, sp_faults>>

wfvars == <<start_year, start_month, end_year, end_month, base_dir, pl_files, wf_pc,
            download_list, wf_i, current_month, prev_downloaded_file, prev_month,
          current_downloaded_file,
            original_file, threads, wf_log, wf_faults>>

\* no workflow is run
WorkflowOff ==
    /\ start_year = 0 /\ start_month = 0 /\ end_year = 0 /\ end_month = 0
    /\ base_dir = {} /\ pl_files = {}
    /\ wf_pc = "off"
    /\ download_list = <<>>
    /\ wf_i = 1
    /\ current_month = <<>>
    /\ prev_downloaded_file = None /\ prev_month = <<>>
    /\ current_downloaded_file = None
    /\ original_file = None
    /\ threads = {}
    /\ wf_log = <<>>
    /\ wf_faults = 0

\* no surface-level workflow is run
SLOff ==
    /\ sl_download_list = <<>> /\ sl_pc = "off" /\ sl_i = 1 /\ download_dir = {}
    /\ sl_todo = <<>> /\ sl_log = <<>>

\* split_data_to_pl_single_month is not called on its own
SplitOff ==
    /\ sp_pc = "off" /\ sp_file = None /\ sp_ym = <<>> /\ sp_log = <<>>
    /\ wsl_success = "none" /\ sp_i = 1 /\ success_count = 0 /\ error_count = 0
    /\ sp_outputs = 0 /\ sp_result = "none" /\ sp_faults = 0

\* merge_data is in its first call
FirstRun == run = 1 /\ first_run = <<>>

inputs == <<pl_dir, sl_dir, tp_dir, start_time, end_time>>

fnvars == <<fn_arg, fn_result>>

mergevars == <<pl_dir, sl_dir, tp_dir, start_time, end_time, output_dir, pc, start_dt, end_dt,
               all_files, date_groups, group_idx, processed_count, printed, open_handles,
               written, results, faults>>

DirOf(kind) == CASE kind = "pl" -> pl_dir [] kind = "sl" -> sl_dir [] kind = "tp" -> tp_dir

\* the content of the file that a slot of a group names
Content(kind, file) == IF file \in DOMAIN DirOf(kind) THEN DirOf(kind)[file] ELSE NoFile

(***************************************************************************)
(* Bounds of the model                                                     *)
(***************************************************************************)

\* the most files of one directory in the free directories of InitGrouping
MaxFiles == 2
\* the most data variables of a pressure-level, surface and precipitation file
MaxPLVars == 2
MaxSLVars == 2
MaxTPVars == 1
\* the most file operations that fail in one run of merge_data
MaxFaults == 1
\* the most tokens of a file stem given to extract_datetime_from_filename
MaxTokens == 3
\* the most months of the range of a workflow
MaxMonths == 3
\* the most downloads, splits and deletions that fail in one run of a workflow
MaxWfFaults == 2
\* the number of years, from 2018 on, that a bound of _generate_download_list names
MaxYears == 2
\* the most timesteps of one local split whose command leaves no file
MaxSplitFaults == 2

(***************************************************************************)
(* merge_data: the steps                                                   *)
(***************************************************************************)

\* ParseTimes without the two `return`s of lines 140 and 152: the failure is
\* printed and the run goes on with the bound unset
ParseTimes_no_return ==
    /\ pc = "start"
    /\ LET sdt == IF Given(start_time) THEN ParseBound(start_time) ELSE NoneDt
           edt == IF Given(end_time) THEN ParseBound(end_time) ELSE NoneDt
       IN  /\ pc' = "scan_pl"
           /\ start_dt' = sdt
           /\ end_dt' = edt
           /\ printed' = printed
                \o (IF Given(start_time) /\ sdt = NoneDt THEN <<<<"bad_start_time">>>> ELSE <<>>)
                \o (IF Given(end_time) /\ edt = NoneDt THEN <<<<"bad_end_time">>>> ELSE <<>>)
    /\ UNCHANGED <<wfvars, slvars, splitvars, runvars, fnvars, faults, inputs, output_dir, all_files, date_groups, group_idx, processed_count,
                   open_handles, written, results>>

\* lines 112-152: the directories are listed and the bounds parsed; a bound that
\* is given and parses in neither format is reported and merge_data returns
ParseTimes ==
    /\ pc = "start"
    /\ LET sdt == IF Given(start_time) THEN ParseBound(start_time) ELSE NoneDt
           edt == IF Given(end_time) THEN ParseBound(end_time) ELSE NoneDt
       IN  IF Given(start_time) /\ sdt = NoneDt
           THEN /\ pc' = "aborted"
                /\ printed' = printed \o <<<<"bad_start_time">>>>
                /\ UNCHANGED <<start_dt, end_dt>>
           ELSE IF Given(end_time) /\ edt = NoneDt
           THEN /\ pc' = "aborted"
                /\ printed' = printed \o <<<<"bad_end_time">>>>
                /\ start_dt' = sdt
                /\ UNCHANGED end_dt
           ELSE /\ pc' = "scan_pl"
                /\ start_dt' = sdt
                /\ end_dt' = edt
                /\ UNCHANGED printed
    /\ UNCHANGED <<wfvars, slvars, splitvars, runvars, fnvars, faults, inputs, output_dir, all_files, date_groups, group_idx, processed_count,
                   open_handles, written, results>>

\* lines 162-202: one scanning loop
Scan(kind, next) ==
    /\ pc = "scan_" \o kind
    /\ all_files' = all_files \o ScanLoop(kind, SortedStems(DOMAIN DirOf(kind)), 1,
                                         start_dt, end_dt)
    /\ pc' = next
    /\ UNCHANGED <<wfvars, slvars, splitvars, runvars, fnvars, faults, inputs, output_dir, start_dt, end_dt, date_groups, group_idx,
                   processed_count, printed, open_handles, written, results>>

ScanPL == Scan("pl", "scan_sl")
ScanSL == Scan("sl", "scan_tp")
ScanTP == Scan("tp", "group")

\* lines 204-216
GroupFiles ==
    /\ pc = "group"
    /\ date_groups' = GroupLoop(<<>>, all_files, 1)
    /\ printed' = printed \o <<<<"found", Len(date_groups')>>>>
    /\ processed_count' = 0
    /\ group_idx' = 1
    /\ pc' = "loop"
    /\ UNCHANGED <<wfvars, slvars, splitvars, runvars, fnvars, faults, inputs, output_dir, start_dt, end_dt, all_files, open_handles, written,
                   results>>

\* lines 219-222: a group that misses a kind is reported and skipped
SkipGroup ==
    /\ pc = "loop"
    /\ group_idx <= Len(date_groups)
    /\ Incomplete(date_groups[group_idx].files)
    /\ printed' = printed \o <<<<"skip", date_groups[group_idx].key>>>>
    /\ group_idx' = group_idx + 1
    /\ UNCHANGED <<wfvars, slvars, splitvars, runvars, fnvars, faults, inputs, output_dir, pc, start_dt, end_dt, all_files, date_groups,
                   processed_count, open_handles, written, results>>

\* ProcessGroup without the except clause of lines 333-334: the exception of a
\* group leaves merge_data
ProcessGroup_no_except ==
    /\ pc = "loop"
    /\ group_idx <= Len(date_groups)
    /\ ~Incomplete(date_groups[group_idx].files)
    /\ LET g == date_groups[group_idx]
       IN  \E b \in {TryBlock(g.key, Content("pl", g.files.pl), Content("sl", g.files.sl),
                              Content("tp", g.files.tp))},
              io \in IOOutcomes :
             LET r == TryGroup(b, io)
             IN  /\ io = "ok" \/ (r.hit /\ faults < MaxFaults)
                 /\ faults' = IF io = "ok" THEN faults ELSE faults + 1
                 /\ output_dir' =
                        IF r.file = "written"
                        THEN Put(output_dir, OutputFile(g.key), b.merged_ds)
                        ELSE IF r.file = "partial"
                        THEN Put(output_dir, OutputFile(g.key), Truncated)
                        ELSE output_dir
                 /\ written' =
                        IF r.file = "none" THEN written ELSE written \cup {OutputFile(g.key)}
                 /\ open_handles' =
                        open_handles \cup {<<k, g.files[k]>> : k \in r.opened \ r.closed}
                 /\ processed_count' =
                        IF r.exc = "" THEN processed_count + 1 ELSE processed_count
                 /\ printed' = printed \o
                        <<IF r.exc = ""
                          THEN <<"saved", g.key, Len(r.var_names), r.verify_n>>
                          ELSE <<"error", g.key, r.exc>>>>
                 /\ results' = results \o
                        <<[key |-> g.key, files |-> g.files, exc |-> r.exc,
                           flat |-> r.flat, var_names |-> r.var_names]>>
    /\ group_idx' = group_idx + 1
    /\ pc' = IF results'[Len(results')].exc = "" THEN pc ELSE "raised"
    /\ UNCHANGED <<wfvars, slvars, splitvars, runvars, fnvars, inputs, start_dt, end_dt, all_files, date_groups>>

\* lines 224-334: the try block for a complete group and its except clause
ProcessGroup ==
    /\ pc = "loop"
    /\ group_idx <= Len(date_groups)
    /\ ~Incomplete(date_groups[group_idx].files)
    /\ LET g == date_groups[group_idx]
       IN  \E b \in {TryBlock(g.key, Content("pl", g.files.pl), Content("sl", g.files.sl),
                              Content("tp", g.files.tp))},
              io \in IOOutcomes :
             LET r == TryGroup(b, io)
             IN  /\ io = "ok" \/ (r.hit /\ faults < MaxFaults)
                 /\ faults' = IF io = "ok" THEN faults ELSE faults + 1
                 /\ output_dir' =
                        IF r.file = "written"
                        THEN Put(output_dir, OutputFile(g.key), b.merged_ds)
                        ELSE IF r.file = "partial"
                        THEN Put(output_dir, OutputFile(g.key), Truncated)
                        ELSE output_dir
                 /\ written' =
                        IF r.file = "none" THEN written ELSE written \cup {OutputFile(g.key)}
                 /\ open_handles' =
                        open_handles \cup {<<k, g.files[k]>> : k \in r.opened \ r.closed}
                 /\ processed_count' =
                        IF r.exc = "" THEN processed_count + 1 ELSE processed_count
                 /\ printed' = printed \o
                        <<IF r.exc = ""
                          THEN <<"saved", g.key, Len(r.var_names), r.verify_n>>
                          ELSE <<"error", g.key, r.exc>>>>
                 /\ results' = results \o
                        <<[key |-> g.key, files |-> g.files, exc |-> r.exc,
                           flat |-> r.flat, var_names |-> r.var_names]>>
    /\ group_idx' = group_idx + 1
    /\ UNCHANGED <<wfvars, slvars, splitvars, runvars, fnvars, inputs, pc, start_dt, end_dt, all_files, date_groups>>

\* Finish with the summary counting every group whose try block ran, failed
\* ones included
Finish_counts_failed ==
    /\ pc = "loop"
    /\ group_idx > Len(date_groups)
    /\ printed' = printed \o <<<<"summary", Len(results)>>>>
    /\ pc' = "done"
    /\ UNCHANGED <<wfvars, slvars, splitvars, runvars, fnvars, faults, inputs, output_dir, start_dt, end_dt, all_files, date_groups, group_idx,
                   processed_count, open_handles, written, results>>

\* line 336: the final summary
Finish ==
    /\ pc = "loop"
    /\ group_idx > Len(date_groups)
    /\ printed' = printed \o <<<<"summary", processed_count>>>>
    /\ pc' = "done"
    /\ UNCHANGED <<wfvars, slvars, splitvars, runvars, fnvars, faults, inputs, output_dir, start_dt, end_dt, all_files, date_groups, group_idx,
                   processed_count, open_handles, written, results>>

Next ==
    \/ ParseTimes
    \/ ScanPL
    \/ ScanSL
    \/ ScanTP
    \/ GroupFiles
    \/ SkipGroup
    \/ ProcessGroup
    \/ Finish

(***************************************************************************)
(* The inputs of the model                                                 *)
(***************************************************************************)

KindStr(kind) ==
    CASE kind = "pl" -> <<"p", "l">> [] kind = "sl" -> <<"s", "l">> [] kind = "tp" -> <<"t", "p">>

Kinds == {"pl", "sl", "tp"}

ERA5 == <<"e", "r", "a", "5">>
D20180201 == <<"2", "0", "1", "8", "0", "2", "0", "1">>
T0000 == <<"0", "0", "0", "0">>
T0600 == <<"0", "6", "0", "0">>
T1200 == <<"1", "2", "0", "0">>
T1800 == <<"1", "8", "0", "0">>

\* era5_{date}_{time}_{kind}
StemAt(date, time, kind) == join(<<ERA5, date, time, KindStr(kind)>>, "_")

\* the stems of the free directories: two timesteps, and a second file of the key
\* of the first (its name sorts before)
GroupingStems(kind) ==
    { StemAt(D20180201, T0600, kind),
      StemAt(D20180201, T1200, kind),
      join(<<<<"a">>, D20180201, T0600, KindStr(kind)>>, "_") }

\* stems whose key is not of the form YYYYMMDD_HHMM: a name without date and
\* time, a date that is no calendar date, an hour beyond 23, a date of 7 digits
\* (the key is the stem without its suffix), and the same after a prefix
OddStems(kind) ==
    { join(<<<<"f", "o", "o">>, KindStr(kind)>>, "_"),
      StemAt(<<"2", "0", "1", "8", "0", "2", "3", "0">>, T0000, kind),
      StemAt(D20180201, <<"2", "4", "0", "0">>, kind),
      join(<<<<"2", "0", "1", "8", "0", "2", "1">>, T0600, KindStr(kind)>>, "_"),
      join(<<ERA5, <<"2", "0", "1", "8", "0", "2", "1">>, T0600, KindStr(kind)>>, "_") }

\* the four timesteps of a day
DayStems(kind) == { StemAt(D20180201, t, kind) : t \in {T0000, T0600, T1200, T1800} }

Dims4 == <<"time", "level", "latitude", "longitude">>
Dims3L == <<"level", "latitude", "longitude">>
Dims3 == <<"time", "latitude", "longitude">>
Dims2 == <<"latitude", "longitude">>

\* single-timestep files as the workflows produce them: t and z on 13 levels,
\* t2m, tp; seed tells the files apart
GoodDesc(kind, seed) ==
    [exists |-> TRUE, seed |-> seed, T |-> 1, L |-> 13, H |-> 1, W |-> 1,
     vars |-> CASE kind = "pl" -> <<[name |-> <<"t">>, dims |-> Dims4],
                                    [name |-> <<"z">>, dims |-> Dims4]>>
                [] kind = "sl" -> <<[name |-> <<"t", "2", "m">>, dims |-> Dims3]>>
                [] kind = "tp" -> <<[name |-> <<"t", "p">>, dims |-> Dims3]>>]

\* the directories over the stems of S with at most n files, each file a good one
\* of a seed of its own
RECURSIVE SeedOf(_, _)
SeedOf(stem, sorted) == IF sorted[1] = stem THEN 1 ELSE 1 + SeedOf(stem, Tail(sorted))

GoodDirs(kind, S, n) ==
    { [stem \in D |-> GoodDesc(kind, SeedOf(stem, SortedStems(S)))] :
        D \in {D \in SUBSET S : Cardinality(D) <= n} }

\* the sequences of at most n variables with distinct names of names and dims of dimsets
RECURSIVE VarSeqs(_, _, _)
VarSeqs(names, dimsets, n) ==
    IF n = 0 THEN {<<>>}
    ELSE LET shorter == VarSeqs(names, dimsets, n - 1)
             used(vs) == {vs[i].name : i \in 1..Len(vs)}
         IN  shorter \cup
             UNION { { vs \o <<[name |-> nm, dims |-> ds]>> :
                         nm \in names \ used(vs), ds \in dimsets } :
                     vs \in {v \in shorter : Len(v) = n - 1} }

\* the contents of the files of InitFlatten
PLDescs ==
    { [exists |-> TRUE, seed |-> 1, T |-> g[1], L |-> g[2], H |-> 1, W |-> g[3], vars |-> vs] :
        g \in {<<1, 13, 1>>, <<1, 14, 1>>, <<2, 13, 1>>, <<1, 13, 2>>},
        vs \in VarSeqs({<<"t">>, <<"u">>}, {Dims4, Dims3L}, MaxPLVars) }
SLDescs ==
    { [exists |-> TRUE, seed |-> 2, T |-> g[1], L |-> 1, H |-> 1, W |-> g[2], vars |-> vs] :
        g \in {<<1, 1>>, <<2, 1>>},
        vs \in VarSeqs({<<"t", "2", "m">>, <<"u", "1", "0", "0">>}, {Dims3, Dims2}, MaxSLVars) }
TPDescs ==
    { [exists |-> TRUE, seed |-> 3, T |-> 1, L |-> 1, H |-> 1, W |-> 1, vars |-> vs] :
        vs \in VarSeqs({<<"t", "p">>, <<"t", "2", "m">>}, {Dims3}, MaxTPVars) }

\* a directory with no file or the one file stem, of a content of descs
OneFileDirs(stem, descs) == {<<>>} \cup { [s \in {stem} |-> d] : d \in descs }

\* the bounds given on the command line
B0600h == <<"2", "0", "1", "8", "-", "0", "2", "-", "0", "1", " ", "0", "6", ":", "0", "0">>
B1200h == <<"2", "0", "1", "8", "-", "0", "2", "-", "0", "1", " ", "1", "2", ":", "0", "0">>
B0600k == <<"2", "0", "1", "8", "0", "2", "0", "1", "_", "0", "6", "0", "0">>
B1200k == <<"2", "0", "1", "8", "0", "2", "0", "1", "_", "1", "2", "0", "0">>
BadTime == <<"2", "0", "1", "8", "/", "0", "2", "/", "0", "1">>

\* the state of merge_data before its first step
Idle ==
    /\ output_dir = <<>>
    /\ pc = "start"
    /\ start_dt = NoneDt
    /\ end_dt = NoneDt
    /\ all_files = <<>>
    /\ date_groups = <<>>
    /\ group_idx = 1
    /\ processed_count = 0
    /\ printed = <<>>
    /\ open_handles = {}
    /\ written = {}
    /\ results = <<>>
    /\ faults = 0
    /\ fn_arg = None
    /\ fn_result = None
    /\ FirstRun
    /\ WorkflowOff
    /\ SLOff
    /\ SplitOff

\* free directories of good files, with and without bounds (the start after the end
\* when both are given)
InitGrouping ==
    /\ pl_dir \in GoodDirs("pl", GroupingStems("pl"), MaxFiles)
    /\ sl_dir \in GoodDirs("sl", GroupingStems("sl"), MaxFiles)
    /\ tp_dir \in GoodDirs("tp", GroupingStems("tp"), MaxFiles)
    /\ start_time \in {None, B1200h}
    /\ end_time \in {None, B0600k}

\* the four timesteps of a day in all three directories, under every pair of bounds
InitDay ==
    /\ pl_dir \in GoodDirs("pl", DayStems("pl"), 4) /\ Cardinality(DOMAIN pl_dir) = 4
    /\ sl_dir \in GoodDirs("sl", DayStems("sl"), 4) /\ Cardinality(DOMAIN sl_dir) = 4
    /\ tp_dir \in GoodDirs("tp", DayStems("tp"), 4) /\ Cardinality(DOMAIN tp_dir) = 4
    /\ start_time \in {None, <<>>, B0600h, B1200k, BadTime}
    /\ end_time \in {None, <<>>, B1200h, B0600k, BadTime}

\* one file name with an odd key in all three directories, beside a regular timestep
InitOdd ==
    /\ \E i \in 1..Cardinality(OddStems("pl")) :
         /\ pl_dir \in GoodDirs("pl", {SortedStems(OddStems("pl"))[i], StemAt(D20180201, T0600, "pl")}, 2)
         /\ sl_dir \in GoodDirs("sl", {SortedStems(OddStems("sl"))[i], StemAt(D20180201, T0600, "sl")}, 2)
         /\ tp_dir \in GoodDirs("tp", {SortedStems(OddStems("tp"))[i], StemAt(D20180201, T0600, "tp")}, 2)
    /\ start_time \in {None, B0600h}
    /\ end_time \in {None, B1200k}

\* one timestep, the files of every content of the catalogue, no bounds
InitFlatten ==
    /\ pl_dir \in OneFileDirs(StemAt(D20180201, T0600, "pl"), PLDescs)
    /\ sl_dir \in OneFileDirs(StemAt(D20180201, T0600, "sl"), SLDescs)
    /\ tp_dir \in OneFileDirs(StemAt(D20180201, T0600, "tp"), TPDescs)
    /\ start_time = None
    /\ end_time = None

Init ==
    /\ Idle
    /\ \/ InitGrouping
       \/ InitDay
       \/ InitOdd
       \/ InitFlatten

Spec == Init /\ [][Next]_vars

\* merge_data has returned and is called again in the same process with the same
\* arguments: the directories are as the first call left them, the datasets it
\* left open are still open, everything local starts anew.  The second call
\* is made after a first call in which no file operation failed; file
\* operations of the second call may fail
Rerun ==
    /\ run = 1
    /\ pc \in {"done", "aborted"}
    /\ faults = 0
    /\ run' = 2
    /\ first_run' = [output_dir |-> output_dir, written |-> written,
                     processed_count |-> processed_count, faults |-> faults,
                     printed |-> printed]
    /\ pc' = "start"
    /\ start_dt' = NoneDt
    /\ end_dt' = NoneDt
    /\ all_files' = <<>>
    /\ date_groups' = <<>>
    /\ group_idx' = 1
    /\ processed_count' = 0
    /\ printed' = <<>>
    /\ written' = {}
    /\ results' = <<>>
    /\ faults' = 0
    /\ UNCHANGED <<wfvars, slvars, splitvars, fnvars, inputs, output_dir, open_handles>>

NextTwice == Next \/ Rerun

SpecTwice == Init /\ [][NextTwice]_vars

(***************************************************************************)
(* extract_datetime_from_filename as a function of the file stem           *)
(***************************************************************************)

\* the tokens of the stems: empty, words, kind suffixes, digit strings of 8, 4 and
\* other lengths, and 8 and 4 characters that are not all digits
StemTokens ==
    { <<>>, ERA5, <<"x">>, <<"p", "l">>, <<"s", "l">>, <<"t", "p">>, <<"s", "p", "l">>,
      D20180201, T0600, <<"2", "0", "1", "8", "0", "2", "1">>, <<"0", "6", "0">>,
      <<"2", "0", "1", "8", "0", "2", "0", "x">> }

\* the stems of at most n tokens
RECURSIVE TokenStems(_)
TokenStems(n) ==
    IF n = 1 THEN StemTokens
    ELSE TokenStems(n - 1) \cup
         { s \o <<"_">> \o t : s \in TokenStems(n - 1), t \in StemTokens }

\* the digit strings of n characters over two digits
RECURSIVE DigitStrings(_)
DigitStrings(n) ==
    IF n = 0 THEN {<<>>}
    ELSE { s \o <<d>> : s \in DigitStrings(n - 1), d \in {"0", "7"} }

\* era5_{8 digits}_{4 digits}_{suffix}
CanonicalStems ==
    { join(<<ERA5, d, t, KindStr(k)>>, "_") :
        d \in DigitStrings(8), t \in DigitStrings(4), k \in Kinds }

\* the state in which merge_data is not run
MergeOff ==
    /\ pl_dir = <<>> /\ sl_dir = <<>> /\ tp_dir = <<>>
    /\ start_time = None /\ end_time = None
    /\ output_dir = <<>>
    /\ pc = "off"
    /\ start_dt = NoneDt /\ end_dt = NoneDt
    /\ all_files = <<>> /\ date_groups = <<>>
    /\ group_idx = 1 /\ processed_count = 0
    /\ printed = <<>> /\ open_handles = {} /\ written = {} /\ results = <<>>
    /\ faults = 0
    /\ FirstRun

InitExtract ==
    /\ MergeOff
    /\ WorkflowOff
    /\ SLOff
    /\ SplitOff
    /\ fn_arg \in TokenStems(MaxTokens) \cup CanonicalStems
    /\ fn_result = None

\* a call extract_datetime_from_filename(Path(fn_arg + ".nc"))
ExtractCall ==
    /\ fn_arg # None
    /\ fn_result = None
    /\ fn_result' = extract_datetime_from_filename(fn_arg)
    /\ UNCHANGED <<wfvars, slvars, splitvars, runvars, mergevars, fn_arg>>

NextExtract == ExtractCall

SpecExtract == InitExtract /\ [][NextExtract]_vars

(***************************************************************************)
(* ERA5AutomatedWorkflow.run_complete_workflow (automated_era5_workflow.py) *)
(***************************************************************************)

\* the loop with the end month excluded (month < end_month)
RECURSIVE DownloadListLoop_end_exclusive(_, _, _, _)
DownloadListLoop_end_exclusive(year, month, ey, em) ==
    IF (year < ey) \/ (year = ey /\ month < em)
    THEN <<<<year, month>>>> \o
         (IF month + 1 > 12 THEN DownloadListLoop_end_exclusive(year + 1, 1, ey, em)
          ELSE DownloadListLoop_end_exclusive(year, month + 1, ey, em))
    ELSE <<>>

\* the loop of _generate_download_list, lines 403-410
RECURSIVE DownloadListLoop(_, _, _, _)
DownloadListLoop(year, month, ey, em) ==
    IF (year < ey) \/ (year = ey /\ month <= em)
    THEN <<<<year, month>>>> \o
         (IF month + 1 > 12 THEN DownloadListLoop(year + 1, 1, ey, em)
          ELSE DownloadListLoop(year, month + 1, ey, em))
    ELSE <<>>

\* _generate_download_list, lines 394-412
generate_download_list(sy, sm, ey, em) ==
    IF sy = 0 \/ sm = 0 \/ ey = 0 \/ em = 0 THEN <<<<2018, 2>>>>
    ELSE DownloadListLoop(sy, sm, ey, em)

\* f"{month:02d}"
Pad2(n) == IF n < 10 THEN <<"0">> \o Str(n) ELSE Str(n)

\* f"era5_{year}{month:02d}.nc", lines 159-160
OriginalFileName(ym) ==
    <<"e", "r", "a", "5", "_">> \o Str(ym[1]) \o Pad2(ym[2]) \o <<".", "n", "c">>

\* download_era5_data_single_month(year, month), lines 154-216: what a call can
\* do.  "exists": the file is there and is returned (lines 166-170); "ok": it is
\* retrieved and returned; "fail": the retrieval raises, or leaves no file
\* (line 212), and the exception leaves the method (line 216)
DownloadOutcomes(ym) ==
    IF OriginalFileName(ym) \in base_dir THEN {"exists"}
    ELSE {"ok"} \cup (IF wf_faults < MaxWfFaults THEN {"fail"} ELSE {})

\* the log entry of a download
DownloadEvent(who, ym, d) == <<"download", who, ym, d>>

\* the outcomes with the cleanup done whatever the split returned (no test of
\* split_success)
SplitOutcomes_cleanup_always(file) ==
    IF file = None \/ file \notin base_dir THEN {<<"raise", "none">>}
    ELSE {<<"wsl", "deleted">>, <<"python", "deleted">>}
         \cup (IF wf_faults < MaxWfFaults
               THEN {<<"failed", "deleted">>, <<"wsl", "kept">>, <<"python", "kept">>}
               ELSE {})

\* what the split of a month and the cleanup after it can do (lines 582-594 and
\* 613-625, with split_data_to_pl_single_month, lines 218-242, and
\* cleanup_original_file_single_month, lines 374-392)
\*   "raise"    the file is None or does not exist: FileNotFoundError (line 225)
\*   "wsl"      the WSL split returned True
\*   "python"   the WSL split returned False, the local one True
\*   "failed"   both returned False: no cleanup
\* and for a successful split: "deleted" (unlink), "kept" (OSError at unlink,
\* caught at line 385)
SplitOutcomes(file) ==
    IF file = None \/ file \notin base_dir THEN {<<"raise", "none">>}
    ELSE {<<"wsl", "deleted">>, <<"python", "deleted">>}
         \cup (IF wf_faults < MaxWfFaults
               THEN {<<"failed", "none">>, <<"wsl", "kept">>, <<"python", "kept">>}
               ELSE {})

\* the split and cleanup of the month ym from file, by who (0: the main thread,
\* i: the thread started in iteration i), with outcome o: the files and the log
\* after it; self.original_file is set before the split (lines 527, 585, 616)
SplitStep(who, file, ym, o) ==
    /\ original_file' = file
    /\ pl_files' = IF o[1] \in {"wsl", "python"} THEN pl_files \cup {ym} ELSE pl_files
    /\ base_dir' = IF o[2] = "deleted" THEN base_dir \ {file} ELSE base_dir
    /\ wf_faults' = IF o \in {<<"wsl", "deleted">>, <<"python", "deleted">>} THEN wf_faults
                    ELSE IF o[1] = "raise" THEN wf_faults ELSE wf_faults + 1
    /\ wf_log' = wf_log \o <<<<"split", who, ym, o[1]>>>>
                        \o (IF o[2] = "none" THEN <<>> ELSE <<<<"cleanup", who, ym, o[2]>>>>)

\* lines 633-638: the exception is logged and raised again
WorkflowError == <<<<"workflow_error">>>>

\* lines 497-509 and 549: the list is generated; one month takes the sequential
\* path, any other length the pipelined one, whose download_list[0] raises
\* IndexError on an empty list
WfStart ==
    /\ wf_pc = "start"
    /\ download_list' = generate_download_list(start_year, start_month, end_year, end_month)
    /\ IF Len(download_list') = 1
       THEN wf_pc' = "single_download" /\ UNCHANGED wf_log
       ELSE IF Len(download_list') = 0
       THEN wf_pc' = "error" /\ wf_log' = wf_log \o WorkflowError
       ELSE wf_pc' = "first_download" /\ UNCHANGED wf_log
    /\ UNCHANGED <<start_year, start_month, end_year, end_month, base_dir, pl_files, wf_i,
                   current_month, prev_downloaded_file, prev_month, current_downloaded_file,
                   original_file, threads, wf_faults, slvars, splitvars, runvars, fnvars, mergevars>>

\* a download in the main thread: lines 519 (single month) and 556 (first month)
MainDownload(at, next) ==
    /\ wf_pc = at
    /\ \E d \in DownloadOutcomes(download_list[1]) :
          /\ wf_log' = wf_log \o <<DownloadEvent(0, download_list[1], d)>>
                       \o (IF d = "fail" THEN WorkflowError ELSE <<>>)
          /\ wf_pc' = IF d = "fail" THEN "error" ELSE next
          /\ wf_faults' = IF d = "fail" THEN wf_faults + 1 ELSE wf_faults
          /\ base_dir' = IF d = "fail" THEN base_dir
                         ELSE base_dir \cup {OriginalFileName(download_list[1])}
          /\ prev_downloaded_file' =
                IF d = "fail" THEN prev_downloaded_file ELSE OriginalFileName(download_list[1])
          /\ prev_month' = IF d = "fail" THEN prev_month ELSE download_list[1]
          /\ wf_i' = IF d = "fail" THEN wf_i ELSE 2
    /\ UNCHANGED <<start_year, start_month, end_year, end_month, pl_files, download_list,
                   current_month, current_downloaded_file, original_file, threads,
                   slvars, splitvars, runvars, fnvars, mergevars>>

\* lines 510-521
SingleDownload == MainDownload("single_download", "single_split")

\* lines 549-562
FirstDownload == MainDownload("first_download", "loop")

\* a split, with its cleanup, in the main thread: lines 524-545 (single month)
\* and 612-625 (the last month of the pipeline)
MainSplit ==
    /\ \E o \in SplitOutcomes(prev_downloaded_file) :
          /\ SplitStep(0, prev_downloaded_file, prev_month, o)
          /\ wf_pc' = IF o[1] = "raise" THEN "error" ELSE "finish"
    /\ UNCHANGED <<start_year, start_month, end_year, end_month, download_list, wf_i,
                   current_month, prev_downloaded_file, prev_month, current_downloaded_file,
                   threads, slvars, splitvars, runvars, fnvars, mergevars>>

SingleSplit == wf_pc = "single_split" /\ MainSplit

\* lines 564-601: the loop head, the two closures, and download_thread.start()
StartDownloadThread ==
    /\ wf_pc = "loop"
    /\ wf_i <= Len(download_list)
    /\ current_month' = download_list[wf_i]
    /\ current_downloaded_file' = None
    /\ threads' = threads \cup {[kind |-> "download", iter |-> wf_i, state |-> "running"]}
    /\ wf_pc' = "start_split"
    /\ UNCHANGED <<start_year, start_month, end_year, end_month, base_dir, pl_files,
                   download_list, wf_i, prev_downloaded_file, prev_month, original_file,
                   wf_log, wf_faults, slvars, splitvars, runvars, fnvars, mergevars>>

\* line 602: split_thread.start()
StartSplitThread ==
    /\ wf_pc = "start_split"
    /\ threads' = threads \cup {[kind |-> "split", iter |-> wf_i, state |-> "running"]}
    /\ wf_pc' = "join_download"
    /\ UNCHANGED <<start_year, start_month, end_year, end_month, base_dir, pl_files,
                   download_list, wf_i, current_month, prev_downloaded_file, prev_month,
                   current_downloaded_file, original_file, wf_log, wf_faults,
                   slvars, splitvars, runvars, fnvars, mergevars>>

\* the thread t ends in state st
Ended(t, st) == (threads \ {t}) \cup {[t EXCEPT !.state = st]}

\* lines 571-578: download_current runs in its thread; an exception ends the
\* thread (threading prints it) and goes nowhere else
DownloadCurrent ==
    \E t \in threads :
        /\ t.kind = "download" /\ t.state = "running"
        /\ \E d \in DownloadOutcomes(current_month) :
              /\ wf_log' = wf_log \o <<DownloadEvent(t.iter, current_month, d)>>
              /\ wf_faults' = IF d = "fail" THEN wf_faults + 1 ELSE wf_faults
              /\ base_dir' = IF d = "fail" THEN base_dir
                             ELSE base_dir \cup {OriginalFileName(current_month)}
              /\ current_downloaded_file' =
                    IF d = "fail" THEN current_downloaded_file
                    ELSE OriginalFileName(current_month)
              /\ threads' = Ended(t, IF d = "fail" THEN "raised" ELSE "finished")
        /\ UNCHANGED <<start_year, start_month, end_year, end_month, pl_files, wf_pc,
                       download_list, wf_i, current_month, prev_downloaded_file, prev_month,
                       original_file, slvars, splitvars, runvars, fnvars, mergevars>>

\* lines 581-594: split_previous runs in its thread
SplitPrevious ==
    \E t \in threads :
        /\ t.kind = "split" /\ t.state = "running"
        /\ \E o \in SplitOutcomes(prev_downloaded_file) :
              /\ SplitStep(t.iter, prev_downloaded_file, prev_month, o)
              /\ threads' = Ended(t, IF o[1] = "raise" THEN "raised" ELSE "finished")
        /\ UNCHANGED <<start_year, start_month, end_year, end_month, wf_pc, download_list,
                       wf_i, current_month, prev_downloaded_file, prev_month,
                       current_downloaded_file, slvars, splitvars, runvars, fnvars, mergevars>>

\* the thread of this kind started in iteration i is not running
Joined(kind, i) == \A t \in threads : (t.kind = kind /\ t.iter = i) => t.state # "running"

\* JoinDownload that looks at the thread's outcome: when the download raised,
\* the workflow is ended at once, the split thread not joined
JoinDownload_fail_fast ==
    /\ wf_pc = "join_download"
    /\ Joined("download", wf_i)
    /\ IF \E t \in threads : t.kind = "download" /\ t.iter = wf_i /\ t.state = "raised"
       THEN wf_pc' = "error" /\ wf_log' = wf_log \o WorkflowError
       ELSE wf_pc' = "join_split" /\ UNCHANGED wf_log
    /\ UNCHANGED <<start_year, start_month, end_year, end_month, base_dir, pl_files,
                   download_list, wf_i, current_month, prev_downloaded_file, prev_month,
                   current_downloaded_file, original_file, threads, wf_faults,
                   slvars, splitvars, runvars, fnvars, mergevars>>

\* line 605: download_thread.join() returns when the thread has ended, however
\* it ended
JoinDownload ==
    /\ wf_pc = "join_download"
    /\ Joined("download", wf_i)
    /\ wf_pc' = "join_split"
    /\ UNCHANGED <<start_year, start_month, end_year, end_month, base_dir, pl_files,
                   download_list, wf_i, current_month, prev_downloaded_file, prev_month,
                   current_downloaded_file, original_file, threads, wf_log, wf_faults,
                   slvars, splitvars, runvars, fnvars, mergevars>>

\* JoinSplit without split_thread.join(): the main thread goes on while the
\* split may still run
JoinSplit_no_join ==
    /\ wf_pc = "join_split"
    /\ prev_downloaded_file' = current_downloaded_file
    /\ prev_month' = current_month
    /\ wf_i' = wf_i + 1
    /\ wf_pc' = "loop"
    /\ UNCHANGED <<start_year, start_month, end_year, end_month, base_dir, pl_files,
                   download_list, current_month, current_downloaded_file, original_file,
                   threads, wf_log, wf_faults, slvars, splitvars, runvars, fnvars, mergevars>>

\* JoinSplit without the update of lines 609-610: the next iteration splits the
\* same month again
JoinSplit_stale_prev ==
    /\ wf_pc = "join_split"
    /\ Joined("split", wf_i)
    /\ wf_i' = wf_i + 1
    /\ wf_pc' = "loop"
    /\ UNCHANGED <<start_year, start_month, end_year, end_month, base_dir, pl_files,
                   download_list, current_month, prev_downloaded_file, prev_month,
                   current_downloaded_file, original_file,
                   threads, wf_log, wf_faults, slvars, splitvars, runvars, fnvars, mergevars>>

\* lines 606-610: split_thread.join(), then the previous month becomes the
\* current one
JoinSplit ==
    /\ wf_pc = "join_split"
    /\ Joined("split", wf_i)
    /\ prev_downloaded_file' = current_downloaded_file
    /\ prev_month' = current_month
    /\ wf_i' = wf_i + 1
    /\ wf_pc' = "loop"
    /\ UNCHANGED <<start_year, start_month, end_year, end_month, base_dir, pl_files,
                   download_list, current_month, current_downloaded_file, original_file,
                   threads, wf_log, wf_faults, slvars, splitvars, runvars, fnvars, mergevars>>

\* lines 612-625: the split of the last month, after the loop
FinalSplit ==
    /\ wf_pc = "loop"
    /\ wf_i > Len(download_list)
    /\ MainSplit

\* lines 627-631: the workflow reports its completion
Complete ==
    /\ wf_pc = "finish"
    /\ wf_log' = wf_log \o <<<<"completed">>>>
    /\ wf_pc' = "done"
    /\ UNCHANGED <<start_year, start_month, end_year, end_month, base_dir, pl_files,
                   download_list, wf_i, current_month, prev_downloaded_file, prev_month,
                   current_downloaded_file, original_file, threads, wf_faults,
                   slvars, splitvars, runvars, fnvars, mergevars>>

NextWorkflow ==
    \/ WfStart
    \/ SingleDownload
    \/ SingleSplit
    \/ FirstDownload
    \/ StartDownloadThread
    \/ StartSplitThread
    \/ DownloadCurrent
    \/ SplitPrevious
    \/ JoinDownload
    \/ JoinSplit
    \/ FinalSplit
    \/ Complete

\* the months from 2018-11 on
MonthsFrom201811 == DownloadListLoop(2018, 11, 2019, 12)

\* a range of at most MaxMonths months from 2018-11 or 2018-12 (the end may
\* precede the start), or no range; some of the original files may be there
InitWorkflow ==
    /\ MergeOff
    /\ SLOff
    /\ SplitOff
    /\ fn_arg = None /\ fn_result = None
    /\ \/ start_year = 0 /\ start_month = 0 /\ end_year = 0 /\ end_month = 0
       \/ \E s \in 1..2, e \in 1..MaxMonths :
             /\ e - s + 1 <= MaxMonths
             /\ start_year = MonthsFrom201811[s][1] /\ start_month = MonthsFrom201811[s][2]
             /\ end_year = MonthsFrom201811[e][1] /\ end_month = MonthsFrom201811[e][2]
    /\ base_dir \in SUBSET {OriginalFileName(MonthsFrom201811[1]),
                            OriginalFileName(MonthsFrom201811[2])}
    /\ pl_files = {}
    /\ wf_pc = "start"
    /\ download_list = <<>>
    /\ wf_i = 1
    /\ current_month = <<>>
    /\ prev_downloaded_file = None /\ prev_month = <<>>
    /\ current_downloaded_file = None
    /\ original_file = None
    /\ threads = {}
    /\ wf_log = <<>>
    /\ wf_faults = 0

SpecWorkflow == InitWorkflow /\ [][NextWorkflow]_vars

(***************************************************************************)
(* _generate_download_list of the two workflows                            *)
(***************************************************************************)

\* the loop of ERA5SLAutomatedWorkflow._generate_download_list, lines 349-356
RECURSIVE SLDownloadListLoop(_, _, _, _)
SLDownloadListLoop(year, month, ey, em) ==
    IF (year < ey) \/ (year = ey /\ month <= em)
    THEN <<<<year, month>>>> \o
         (IF month + 1 > 12 THEN SLDownloadListLoop(year + 1, 1, ey, em)
          ELSE SLDownloadListLoop(year, month + 1, ey, em))
    ELSE <<>>

\* ERA5SLAutomatedWorkflow._generate_download_list, lines 340-358
sl_generate_download_list(sy, sm, ey, em) ==
    IF sy = 0 \/ sm = 0 \/ ey = 0 \/ em = 0 THEN <<<<2018, 2>>>>
    ELSE SLDownloadListLoop(sy, sm, ey, em)

\* the years and months given to the constructors (0: not given)
BoundYears == {0} \cup {2018 + k : k \in 0..(MaxYears - 1)}
BoundMonths == 0..12

\* a workflow object of each class, constructed with the same four bounds
InitList ==
    /\ MergeOff
    /\ fn_arg = None /\ fn_result = None
    /\ start_year \in BoundYears /\ end_year \in BoundYears
    /\ start_month \in BoundMonths /\ end_month \in BoundMonths
    /\ base_dir = {} /\ pl_files = {}
    /\ wf_pc = "list"
    /\ download_list = <<>>
    /\ wf_i = 1
    /\ current_month = <<>>
    /\ prev_downloaded_file = None /\ prev_month = <<>>
    /\ current_downloaded_file = None
    /\ original_file = None
    /\ threads = {}
    /\ wf_log = <<>>
    /\ wf_faults = 0
    /\ SLOff
    /\ SplitOff

\* a call of _generate_download_list on each of the two objects
GenerateLists ==
    /\ wf_pc = "list"
    /\ download_list' = generate_download_list(start_year, start_month, end_year, end_month)
    /\ sl_download_list' =
          sl_generate_download_list(start_year, start_month, end_year, end_month)
    /\ wf_pc' = "listed"
    /\ UNCHANGED <<start_year, start_month, end_year, end_month, base_dir, pl_files, wf_i,
                   current_month, prev_downloaded_file, prev_month, current_downloaded_file,
                   original_file, threads, wf_log, wf_faults, sl_pc, sl_i, download_dir,
                   sl_todo, sl_log, splitvars, runvars, fnvars, mergevars>>

NextList == GenerateLists

SpecList == InitList /\ [][NextList]_vars

(***************************************************************************)
(* ERA5AutomatedWorkflow.split_data_to_pl_single_month and the two split   *)
(* methods it calls                                                        *)
(***************************************************************************)

\* total_timesteps, lines 315-316: calendar.monthrange(year, month)[1] * 4
TotalTimesteps(ym) == DaysInMonth(ym[1], ym[2]) * 4

\* what _split_with_wsl_single_month (lines 244-307) meets, and what it returns:
\*   "unavailable"    wsl --list returns non-zero                 False (line 254)
\*   "timeout"        subprocess.TimeoutExpired                   False (line 299)
\*   "no_wsl"         FileNotFoundError: no wsl command           False (line 303)
\*   "error"          any other exception                         False (line 307)
\*   "script_failed"  split_era5.sh returns non-zero              False (line 294)
\*   "no_files"       it returns 0, pl/ has no file of the month  False (line 291)
\*   "files"          it returns 0, pl/ has files of the month    True  (line 287)
WslOutcomes ==
    {"unavailable", "timeout", "no_wsl", "error", "script_failed", "no_files", "files"}

split_with_wsl_single_month(w) == IF w = "files" THEN "True" ELSE "False"

\* what the cdo command of one timestep (lines 335-367) can do:
\*   "created"        it returns 0 and the output file exists (success_count += 1)
\*   "absent"         it returns 0 and the output file does not exist: a warning
\*   "cdo_failed"     CalledProcessError (error_count += 1)
\*   "error"          any other exception (error_count += 1)
\*   "no_cdo"         FileNotFoundError: the method returns False at once
TimestepOutcomes ==
    {"created"} \cup
    (IF sp_faults < MaxSplitFaults THEN {"absent", "cdo_failed", "error", "no_cdo"} ELSE {})

\* an event of sp_log
Called(fn) == <<"call", fn>>
Returned(fn, v) == <<"return", fn, v>>

\* the months split in SpecSplit
MonthsToSplit == {<<2018, 2>>, <<2018, 11>>, <<2018, 12>>, <<2020, 2>>}

\* a workflow object and the arguments of one call: the file is None, or the
\* month's original file, which is there or not
InitSplit ==
    /\ MergeOff
    /\ fn_arg = None /\ fn_result = None
    /\ SLOff
    /\ start_year = 0 /\ start_month = 0 /\ end_year = 0 /\ end_month = 0
    /\ pl_files = {}
    /\ wf_pc = "off"
    /\ download_list = <<>>
    /\ wf_i = 1
    /\ current_month = <<>>
    /\ prev_downloaded_file = None /\ prev_month = <<>>
    /\ current_downloaded_file = None
    /\ original_file = None
    /\ threads = {}
    /\ wf_log = <<>>
    /\ wf_faults = 0
    /\ sp_ym \in MonthsToSplit
    /\ sp_file \in {None, OriginalFileName(sp_ym)}
    /\ base_dir \in {{}, {OriginalFileName(sp_ym)}}
    /\ sp_pc = "call"
    /\ sp_log = <<>>
    /\ wsl_success = "none"
    /\ sp_i = 1 /\ success_count = 0 /\ error_count = 0
    /\ sp_outputs = 0
    /\ sp_result = "none"
    /\ sp_faults = 0

splitenv == <<start_year, start_month, end_year, end_month, pl_files, wf_pc, download_list,
              wf_i, current_month, prev_downloaded_file, prev_month,
              current_downloaded_file, threads, wf_log, wf_faults, base_dir,
              slvars, runvars, fnvars, mergevars>>

\* lines 218-231: a file that is None or is not there raises FileNotFoundError
\* before anything else; otherwise self.original_file is set
SplitCall ==
    /\ sp_pc = "call"
    /\ IF sp_file = None \/ sp_file \notin base_dir
       THEN /\ sp_result' = "raise"
            /\ sp_pc' = "returned"
            /\ UNCHANGED original_file
       ELSE /\ original_file' = sp_file
            /\ sp_pc' = "wsl"
            /\ UNCHANGED sp_result
    /\ UNCHANGED <<splitenv, sp_file, sp_ym, sp_log, wsl_success, sp_i, success_count,
                   error_count, sp_outputs, sp_faults>>

\* line 234: wsl_success = self._split_with_wsl_single_month(year, month); a
\* script that ran has left some or all of the month's files in pl/
WslSplit ==
    /\ sp_pc = "wsl"
    /\ \E w \in WslOutcomes :
          /\ wsl_success' = split_with_wsl_single_month(w)
          /\ sp_log' = sp_log \o <<Called("wsl"), Returned("wsl", wsl_success')>>
          /\ sp_outputs' \in IF w = "files" THEN {1, TotalTimesteps(sp_ym)} ELSE {0}
    /\ sp_pc' = "branch"
    /\ UNCHANGED <<splitenv, original_file, sp_file, sp_ym, sp_i, success_count, error_count,
                   sp_result, sp_faults>>

\* SplitBranch that runs the local split whatever the WSL split returned
SplitBranch_always_local ==
    /\ sp_pc = "branch"
    /\ sp_log' = sp_log \o <<Called("python")>>
    /\ sp_i' = 1 /\ success_count' = 0 /\ error_count' = 0
    /\ sp_pc' = "python"
    /\ UNCHANGED <<splitenv, original_file, sp_file, sp_ym, wsl_success, sp_outputs, sp_result,
                   sp_faults>>

\* lines 237-242 and 309-320: when the WSL split returned False the local split
\* is called (its counters start at 0), otherwise wsl_success is returned
SplitBranch ==
    /\ sp_pc = "branch"
    /\ IF wsl_success = "False"
       THEN /\ sp_log' = sp_log \o <<Called("python")>>
            /\ sp_i' = 1 /\ success_count' = 0 /\ error_count' = 0
            /\ sp_pc' = "python"
            /\ UNCHANGED sp_result
       ELSE /\ sp_result' = wsl_success
            /\ sp_pc' = "returned"
            /\ UNCHANGED <<sp_log, sp_i, success_count, error_count>>
    /\ UNCHANGED <<splitenv, original_file, sp_file, sp_ym, wsl_success, sp_outputs,
                   sp_faults>>

\* lines 323-365: one iteration of the loop of the local split
SplitTimestep ==
    /\ sp_pc = "python"
    /\ sp_i <= TotalTimesteps(sp_ym)
    /\ \E c \in TimestepOutcomes :
          /\ success_count' = IF c = "created" THEN success_count + 1 ELSE success_count
          /\ sp_outputs' = IF c = "created" THEN sp_outputs + 1 ELSE sp_outputs
          /\ error_count' = IF c \in {"cdo_failed", "error"} THEN error_count + 1
                            ELSE error_count
          /\ sp_faults' = IF c = "created" THEN sp_faults ELSE sp_faults + 1
          /\ IF c = "no_cdo"
             THEN /\ sp_log' = sp_log \o <<Returned("python", "False")>>
                  /\ sp_result' = "False"
                  /\ sp_pc' = "returned"
                  /\ UNCHANGED sp_i
             ELSE /\ sp_i' = sp_i + 1
                  /\ UNCHANGED <<sp_log, sp_result, sp_pc>>
    /\ UNCHANGED <<splitenv, original_file, sp_file, sp_ym, wsl_success>>

\* lines 369-372 and 240: return error_count == 0, which
\* split_data_to_pl_single_month returns in turn
SplitReturn ==
    /\ sp_pc = "python"
    /\ sp_i > TotalTimesteps(sp_ym)
    /\ sp_result' = IF error_count = 0 THEN "True" ELSE "False"
    /\ sp_log' = sp_log \o <<Returned("python", sp_result')>>
    /\ sp_pc' = "returned"
    /\ UNCHANGED <<splitenv, original_file, sp_file, sp_ym, wsl_success, sp_i, success_count,
                   error_count, sp_outputs, sp_faults>>

NextSplit ==
    \/ SplitCall
    \/ WslSplit
    \/ SplitBranch
    \/ SplitTimestep
    \/ SplitReturn

SpecSplit == InitSplit /\ [][NextSplit]_vars

(***************************************************************************)
(* ERA5SLAutomatedWorkflow.run_complete_workflow                           *)
(* (automated_era5_sl_workflow.py)                                         *)
(***************************************************************************)

\* f"era5_sl_{year}{month:02d}.zip", line 108
ArchiveName(ym) ==
    <<"e", "r", "a", "5", "_", "s", "l", "_">> \o Str(ym[1]) \o Pad2(ym[2])
        \o <<".", "z", "i", "p">>

\* download_era5_data(year, month), lines 103-163: "exists" (lines 115-119),
\* "ok" (retrieved, lines 150-157), "fail" (the retrieval raises or leaves no
\* file; the exception is logged and raised again, lines 159-163)
SLDownloadOutcomes(ym) ==
    IF ArchiveName(ym) \in download_dir THEN {"exists"} ELSE {"ok", "fail"}

\* the .nc files that temp_extract_dir.rglob("*.nc") yields for an archive, each
\* by what its name contains: "accum" (stepType-accum), "instant"
\* (stepType-instant), "other" (neither); rglob gives them in any order
ArchiveContents ==
    { <<>>,
      <<"accum", "instant">>,
      <<"instant", "accum">>,
      <<"instant", "other">>,
      <<"other", "accum", "instant">> }

\* the data type a recognised file is split as, lines 194-206
DataType(kind) == IF kind = "accum" THEN "tp" ELSE "sl"

\* lines 410-414: the exception is logged and raised again
SLWorkflowError == <<<<"workflow_error">>>>

\* the month of the current iteration
SLMonth == sl_download_list[sl_i]

\* lines 365-374: the directories are created (create_output_directories
\* raises what a mkdir raised, lines 99-101) and the list is generated
SLStart ==
    /\ sl_pc = "start"
    /\ \/ /\ sl_download_list' =
                sl_generate_download_list(start_year, start_month, end_year, end_month)
          /\ sl_pc' = "loop"
          /\ UNCHANGED sl_log
       \/ /\ sl_log' = sl_log \o <<<<"create_output_directories", "fail">>>>
                       \o SLWorkflowError
          /\ sl_pc' = "error"
          /\ UNCHANGED sl_download_list
    /\ sl_i' = 1
    /\ UNCHANGED <<wfvars, splitvars, runvars, fnvars, mergevars, download_dir, sl_todo>>

\* lines 377-387: the next month of the list is downloaded (line 387)
SLDownload ==
    /\ sl_pc = "loop"
    /\ sl_i <= Len(sl_download_list)
    /\ \E d \in SLDownloadOutcomes(SLMonth) :
          /\ sl_log' = sl_log \o <<<<"download", SLMonth, d>>>>
                       \o (IF d = "fail" THEN SLWorkflowError ELSE <<>>)
          /\ download_dir' = IF d = "fail" THEN download_dir
                             ELSE download_dir \cup {ArchiveName(SLMonth)}
          /\ sl_pc' = IF d = "fail" THEN "error" ELSE "extract"
    /\ UNCHANGED <<wfvars, splitvars, runvars, fnvars, mergevars, sl_download_list, sl_i, sl_todo>>

\* lines 165-194 (called at line 395): the archive is extracted into
\* temp_extract and its .nc files are listed; a bad archive raises, the except
\* clause of lines 222-235 cleans the temporary files and raises again
SLExtract ==
    /\ sl_pc = "extract"
    /\ \/ \E c \in ArchiveContents :
             /\ sl_todo' = c
             /\ sl_log' = sl_log \o <<<<"extract", SLMonth, "ok", c>>>>
             /\ sl_pc' = "files"
       \/ /\ sl_log' = sl_log \o <<<<"extract", SLMonth, "fail">>>> \o SLWorkflowError
          /\ sl_pc' = "error"
          /\ UNCHANGED sl_todo
    /\ UNCHANGED <<wfvars, splitvars, runvars, fnvars, mergevars, sl_download_list, sl_i, download_dir>>

\* SLFile with a failure of the split logged and not raised: the loop goes on
SLFile_no_raise ==
    /\ sl_pc = "files"
    /\ sl_todo # <<>>
    /\ LET kind == Head(sl_todo)
       IN  IF kind = "other"
           THEN /\ sl_log' = sl_log \o <<<<"unrecognised", SLMonth>>>>
           ELSE \E r \in {"ok", "fail"} :
                   /\ sl_log' = sl_log \o <<<<"split", SLMonth, DataType(kind), r>>>>
    /\ sl_todo' = Tail(sl_todo)
    /\ UNCHANGED sl_pc
    /\ UNCHANGED <<wfvars, splitvars, runvars, fnvars, mergevars, sl_download_list, sl_i, download_dir>>

\* lines 194-211: one file of temp_extract.  A recognised file is split by
\* _split_nc_file_with_wsl (lines 237-333), which raises when the copy, the
\* command or the move fails or the script returns non-zero (lines 320-329); a
\* file that is not recognised gets a warning
SLFile ==
    /\ sl_pc = "files"
    /\ sl_todo # <<>>
    /\ LET kind == Head(sl_todo)
       IN  IF kind = "other"
           THEN /\ sl_log' = sl_log \o <<<<"unrecognised", SLMonth>>>>
                /\ sl_todo' = Tail(sl_todo)
                /\ UNCHANGED sl_pc
           ELSE \E r \in {"ok", "fail"} :
                   /\ sl_log' = sl_log \o <<<<"split", SLMonth, DataType(kind), r>>>>
                                \o (IF r = "fail" THEN SLWorkflowError ELSE <<>>)
                   /\ sl_todo' = IF r = "fail" THEN sl_todo ELSE Tail(sl_todo)
                   /\ sl_pc' = IF r = "fail" THEN "error" ELSE "files"
    /\ UNCHANGED <<wfvars, splitvars, runvars, fnvars, mergevars, sl_download_list, sl_i, download_dir>>

\* lines 213-220 and 396-401: after the last file temp_extract is removed
\* (line 217) and the archive deleted (line 218); either may raise, and the
\* archive is then still there; otherwise the loop goes to the next month
SLCleanup ==
    /\ sl_pc = "files"
    /\ sl_todo = <<>>
    /\ \E r \in {"ok", "fail"} :
          /\ sl_log' = sl_log \o <<<<"remove", SLMonth, r>>>>
                       \o (IF r = "fail" THEN SLWorkflowError ELSE <<>>)
          /\ download_dir' = IF r = "fail" THEN download_dir
                             ELSE download_dir \ {ArchiveName(SLMonth)}
          /\ sl_i' = IF r = "fail" THEN sl_i ELSE sl_i + 1
          /\ sl_pc' = IF r = "fail" THEN "error" ELSE "loop"
    /\ UNCHANGED <<wfvars, splitvars, runvars, fnvars, mergevars, sl_download_list, sl_todo>>

\* lines 403-408: the workflow reports its completion
SLComplete ==
    /\ sl_pc = "loop"
    /\ sl_i > Len(sl_download_list)
    /\ sl_log' = sl_log \o <<<<"completed">>>>
    /\ sl_pc' = "done"
    /\ UNCHANGED <<wfvars, splitvars, runvars, fnvars, mergevars, sl_download_list, sl_i, download_dir, sl_todo>>

NextSL ==
    \/ SLStart
    \/ SLDownload
    \/ SLExtract
    \/ SLFile
    \/ SLCleanup
    \/ SLComplete

\* a range of at most MaxMonths months from 2018-11 or 2018-12 (the end may
\* precede the start), or no range; some of the archives may be there
InitSL ==
    /\ MergeOff
    /\ SplitOff
    /\ fn_arg = None /\ fn_result = None
    /\ \/ start_year = 0 /\ start_month = 0 /\ end_year = 0 /\ end_month = 0
       \/ \E s \in 1..2, e \in 1..MaxMonths :
             /\ e - s + 1 <= MaxMonths
             /\ start_year = MonthsFrom201811[s][1] /\ start_month = MonthsFrom201811[s][2]
             /\ end_year = MonthsFrom201811[e][1] /\ end_month = MonthsFrom201811[e][2]
    /\ base_dir = {} /\ pl_files = {}
    /\ wf_pc = "off"
    /\ download_list = <<>>
    /\ wf_i = 1
    /\ current_month = <<>>
    /\ prev_downloaded_file = None /\ prev_month = <<>>
    /\ current_downloaded_file = None
    /\ original_file = None
    /\ threads = {}
    /\ wf_log = <<>>
    /\ wf_faults = 0
    /\ download_dir \in SUBSET {ArchiveName(MonthsFrom201811[1]),
                                ArchiveName(MonthsFrom201811[2])}
    /\ sl_pc = "start"
    /\ sl_download_list = <<>>
    /\ sl_i = 1
    /\ sl_todo = <<>>
    /\ sl_log = <<>>

SpecSL == InitSL /\ [][NextSL]_vars

(***************************************************************************)
(* Properties of extract_datetime_from_filename (checked under             *)
(* SpecExtract)                                                            *)
(***************************************************************************)

\* the characters i..j of s are all digits
DigitsAt(s, i, j) == \A k \in i..j : s[k] \in Digits

\* s is era5_{8 digits}_{4 digits}_{pl|sl|tp}
IsCanonicalStem(s) ==
    /\ Len(s) = 21
    /\ s[1] = "e" /\ s[2] = "r" /\ s[3] = "a" /\ s[4] = "5" /\ s[5] = "_"
    /\ DigitsAt(s, 6, 13)
    /\ s[14] = "_"
    /\ DigitsAt(s, 15, 18)
    /\ s[19] = "_"
    /\ <<s[20], s[21]>> \in {<<"p", "l">>, <<"s", "l">>, <<"t", "p">>}

\* C3: for every stem era5_{8 digits}_{4 digits}_{suffix}, suffix one of pl, sl, tp,
\* extract_datetime_from_filename returns exactly {8 digits}_{4 digits}: the
\* characters 6 to 18 of the stem
C3_CanonicalKey ==
    (fn_result # None /\ IsCanonicalStem(fn_arg)) => fn_result = SubSeq(fn_arg, 6, 18)

\* a canonical stem whose key was extracted
C3_Witness ==
    /\ IsCanonicalStem(fn_arg)
    /\ fn_arg[6] = "7" /\ fn_arg[18] = "7" /\ fn_arg[21] = "p"
    /\ fn_result # None
    /\ Len(fn_result) = 13

\* s has a token (a maximal stretch between underscores and the ends) of n
\* characters that are all digits
HasDigitToken(s, n) ==
    \E i \in 1..Len(s) :
        /\ i + n - 1 <= Len(s)
        /\ DigitsAt(s, i, i + n - 1)
        /\ (i = 1 \/ s[i - 1] = "_")
        /\ (i + n - 1 = Len(s) \/ s[i + n] = "_")

\* s ends in _pl, _sl or _tp
HasKindSuffix(s) ==
    /\ Len(s) >= 3
    /\ s[Len(s) - 2] = "_"
    /\ <<s[Len(s) - 1], s[Len(s)]>> \in {<<"p", "l">>, <<"s", "l">>, <<"t", "p">>}

\* C4: for a stem with no 8-digit token and no 4-digit token,
\* extract_datetime_from_filename returns the stem without its last three
\* characters when it ends in _pl, _sl or _tp, and the stem unchanged otherwise;
\* for every stem it returns a string (it has no raising path)
C4_FallbackKey ==
    fn_result # None =>
        /\ \A i \in 1..Len(fn_result) : Len(fn_result[i]) = 1
        /\ (~HasDigitToken(fn_arg, 8) /\ ~HasDigitToken(fn_arg, 4)) =>
              fn_result = IF HasKindSuffix(fn_arg)
                          THEN SubSeq(fn_arg, 1, Len(fn_arg) - 3)
                          ELSE fn_arg

\* a stem without date and time tokens, ending in a kind suffix, was stripped of it
C4_Witness ==
    /\ fn_result # None
    /\ ~HasDigitToken(fn_arg, 8) /\ ~HasDigitToken(fn_arg, 4)
    /\ HasKindSuffix(fn_arg)
    /\ Len(fn_arg) > 3
    /\ fn_result = SubSeq(fn_arg, 1, Len(fn_arg) - 3)

(***************************************************************************)
(* Properties of merge_data (checked under Spec), stated from its inputs   *)
(***************************************************************************)

\* the file stems and the time arguments of the inputs
InputStems == UNION {GroupingStems(k) \cup OddStems(k) \cup DayStems(k) : k \in Kinds}
InputTimes == {None, <<>>, B0600h, B1200h, B0600k, B1200k, BadTime}

\* the key and the date-time of every input file, from its stem, and the bound
\* every time argument stands for (NoneDt for none), tabulated
KeyTable == [stem \in InputStems |-> extract_datetime_from_filename(stem)]
FileDtTable == [stem \in InputStems |-> parse_datetime_string(KeyTable[stem])]
BoundTable ==
    [time_str \in InputTimes |-> IF Given(time_str) THEN ParseBound(time_str) ELSE NoneDt]

KeyOf(stem) == KeyTable[stem]
FileDt(stem) == FileDtTable[stem]
BoundOf(time_str) == BoundTable[time_str]

\* a <= b on datetimes
DtLeq(a, b) == a = b \/ DtLess(a, b)

\* the file's key parses and its date-time lies within the bounds given, both ends
\* included (no date-time lies within a bound that does not parse)
WithinBounds(stem) ==
    /\ FileDt(stem) # NoneDt
    /\ ~Given(start_time)
       \/ (BoundOf(start_time) # NoneDt /\ DtLeq(BoundOf(start_time), FileDt(stem)))
    /\ ~Given(end_time)
       \/ (BoundOf(end_time) # NoneDt /\ DtLeq(FileDt(stem), BoundOf(end_time)))

\* the keys of the files of a kind that lie within the bounds
KeysIn(kind) == { KeyOf(stem) : stem \in {x \in DOMAIN DirOf(kind) : WithinBounds(x)} }

AllKeys == KeysIn("pl") \cup KeysIn("sl") \cup KeysIn("tp")
CompleteKeys == KeysIn("pl") \cap KeysIn("sl") \cap KeysIn("tp")

\* era5_{key}.nc
Era5Name(key) == <<"e", "r", "a", "5", "_">> \o key \o <<".", "n", "c">>

\* no group raised so far
NoGroupRaised == \A i \in 1..Len(results) : results[i].exc = ""

\* merge_data has printed the event of tag tag about key
Printed(tag, key) ==
    \E i \in 1..Len(printed) : printed[i][1] = tag /\ printed[i][2] = key

\* C1: a group that misses one of its three kinds after scanning and time
\* filtering is never flattened and never written: no file era5_{key}.nc exists
\* for its key, the try block never ran for it, and the processed count counts
\* only groups whose try block ended without an exception
C1_IncompleteNeverWritten ==
    /\ \A k \in AllKeys \ CompleteKeys :
          /\ Era5Name(k) \notin written
          /\ Era5Name(k) \notin DOMAIN output_dir
          /\ \A i \in 1..Len(results) : results[i].key # k
    /\ processed_count = Cardinality({i \in 1..Len(results) : results[i].exc = ""})
    /\ \A i \in 1..Len(results) : results[i].key \in CompleteKeys

\* a finished run that skipped an incomplete group and merged a complete one
C1_Witness ==
    /\ pc = "done"
    /\ processed_count >= 1
    /\ \E k \in AllKeys \ CompleteKeys : Printed("skip", k)

\* C2: after a run in which no group raised, the files written are exactly the
\* files era5_{k}.nc of the keys k within the bounds for which a pl, an sl and a
\* tp file exist, one file per key, each holding the record of its key
C2_OneFilePerCompleteGroup ==
    (pc = "done" /\ NoGroupRaised) =>
        /\ written = {Era5Name(k) : k \in CompleteKeys}
        /\ DOMAIN output_dir = written
        /\ Cardinality(written) = Cardinality(CompleteKeys)
        /\ processed_count = Cardinality(CompleteKeys)
        /\ \A k \in CompleteKeys :
              /\ output_dir[Era5Name(k)].valid
              /\ output_dir[Era5Name(k)].attrs.datetime = k

\* a run without failure that wrote the files of two complete groups
C2_Witness ==
    /\ pc = "done"
    /\ NoGroupRaised
    /\ Cardinality(CompleteKeys) = 2
    /\ Cardinality(written) = 2

\* the three scanning loops have run
Scanned == pc \in {"group", "loop", "done"}

\* the directories hold the four timesteps of 2018-02-01 in all three kinds
IsDay == \A kind \in Kinds : DOMAIN DirOf(kind) = DayStems(kind)

\* C5: a file is included in grouping exactly if its key parses to a date-time
\* that is not before the start bound (if one is given) and not after the end
\* bound (if one is given), and the groups are those of the keys of the included
\* files; with the timesteps 00:00, 06:00, 12:00 and 18:00 in all three kinds and
\* the bounds 06:00..12:00 exactly the groups of 06:00 and 12:00 are merged
C5_InclusiveBounds ==
    /\ Scanned =>
          \A kind \in Kinds : \A stem \in DOMAIN DirOf(kind) :
              (\E i \in 1..Len(all_files) :
                  all_files[i].kind = kind /\ all_files[i].file = stem)
              <=> WithinBounds(stem)
    /\ pc \in {"loop", "done"} =>
          {date_groups[j].key : j \in 1..Len(date_groups)} = AllKeys
    /\ (IsDay /\ start_time = B0600h /\ end_time = B1200h /\ pc = "done" /\ NoGroupRaised) =>
          /\ written = {Era5Name(D20180201 \o <<"_">> \o T0600),
                        Era5Name(D20180201 \o <<"_">> \o T1200)}
          /\ processed_count = 2

\* the run over the four timesteps with the bounds 06:00..12:00 merged two groups
C5_Witness ==
    /\ IsDay /\ start_time = B0600h /\ end_time = B1200h
    /\ pc = "done"
    /\ processed_count = 2
    /\ Len(date_groups) = 2

\* both bounds are given and parse, and the start is after the end
Reversed ==
    /\ Given(start_time) /\ Given(end_time)
    /\ BoundOf(start_time) # NoneDt /\ BoundOf(end_time) # NoneDt
    /\ DtLess(BoundOf(end_time), BoundOf(start_time))

\* C6: with a start bound after the end bound no file is included, there is no
\* group, nothing is flattened or written, and the run is not aborted: it ends
\* with the summary of 0 processed groups
C6_ReversedBoundsEmpty ==
    Reversed =>
        /\ pc # "aborted"
        /\ all_files = <<>>
        /\ date_groups = <<>>
        /\ results = <<>>
        /\ written = {} /\ DOMAIN output_dir = {}
        /\ processed_count = 0
        /\ pc = "done" => printed = <<<<"found", 0>>, <<"summary", 0>>>>

\* a run over directories with files, under reversed bounds, has finished
C6_Witness ==
    /\ Reversed
    /\ pc = "done"
    /\ \A kind \in Kinds : DOMAIN DirOf(kind) # {}

(***************************************************************************)
(* Properties of the flatten step and of the written record (checked under *)
(* Spec)                                                                   *)
(***************************************************************************)

\* the contents of the three files of a processed group
PLOf(r) == Content("pl", r.files.pl)
SLOf(r) == Content("sl", r.files.sl)
TPOf(r) == Content("tp", r.files.tp)

\* the text of the 13 pressure levels, in the order of the fixed list
HPaText == <<<<"5", "0">>, <<"1", "0", "0">>, <<"1", "5", "0">>, <<"2", "0", "0">>, <<"2", "5", "0">>, <<"3", "0", "0">>, <<"4", "0", "0">>, <<"5", "0", "0">>, <<"6", "0", "0">>, <<"7", "0", "0">>, <<"8", "5", "0">>, <<"9", "2", "5">>, <<"1", "0", "0", "0">>>>

Is4D(var) == Len(var.dims) = 4

\* the flat names the claim describes for the files pl, sl and tp: position by
\* position, the 4-D pressure-level variables in file order, each on its levels
\* in index order under {variable}{hPa}, then the surface variables, then the
\* precipitation variables, under their raw names
ExpectedNames(pl, sl, tp) ==
    LET pl4 == SelectSeq(pl.vars, Is4D)
        n   == Len(pl4) * pl.L
        S   == Len(sl.vars)
    IN  [p \in 1..(n + S + Len(tp.vars)) |->
            IF p <= n THEN pl4[((p - 1) \div pl.L) + 1].name \o HPaText[((p - 1) % pl.L) + 1]
            ELSE IF p <= n + S THEN sl.vars[p - n].name
            ELSE tp.vars[p - n - S].name]

\* C8: the flat variable list built for a complete group holds the
\* pressure-level-derived variables first, in source-variable order and within a
\* variable in level-index order, each named {variable}{hPa} with hPa the element
\* of the same index of [50, ..., 1000]; then the surface variables in source
\* order under their raw names; then the precipitation variables likewise
C8_FlatOrder ==
    \A i \in 1..Len(results) :
        results[i].flat =>
            results[i].var_names =
                ExpectedNames(PLOf(results[i]), SLOf(results[i]), TPOf(results[i]))

\* the list of the files with t and z on 13 levels, t2m and tp was built: t50 ..
\* t1000, z50 .. z1000, t2m, tp
C8_Witness ==
    \E i \in 1..Len(results) :
        /\ results[i].flat
        /\ Len(results[i].var_names) = 28
        /\ results[i].var_names[1] = <<"t", "5", "0">>
        /\ results[i].var_names[11] = <<"t", "8", "5", "0">>
        /\ results[i].var_names[13] = <<"t", "1", "0", "0", "0">>
        /\ results[i].var_names[14] = <<"z", "5", "0">>
        /\ results[i].var_names[27] = <<"t", "2", "m">>
        /\ results[i].var_names[28] = <<"t", "p">>

\* every pressure-level variable of the file is (1, 13, H, W), every variable of a
\* surface or precipitation file is (1, H, W)
RegularPL(desc) ==
    desc.T = 1 /\ desc.L = 13 /\ \A j \in 1..Len(desc.vars) : desc.vars[j].dims = Dims4
RegularSurface(desc) ==
    desc.T = 1 /\ \A j \in 1..Len(desc.vars) : desc.vars[j].dims = Dims3

\* the record written for a group that ended without exception
RecordOf(r) == output_dir[Era5Name(r.key)]

\* the record holds a variable of this name and these values
Holds(rec, name, v) ==
    \E q \in 1..Len(rec.data_vars) : rec.data_vars[q].name = name /\ rec.data_vars[q].data.v = v

\* C7: for every complete group whose pressure-level variables are (1, 13, H, W)
\* and whose surface and precipitation variables are (1, H, W), the written
\* record holds exactly 13 * P + S + T variables, and each flat variable holds
\* the values of the source slice it was derived from
C7_RoundTrip ==
    \A i \in 1..Len(results) :
        LET r  == results[i]
            pl == PLOf(r)
            sl == SLOf(r)
            tp == TPOf(r)
        IN  (r.exc = "" /\ RegularPL(pl) /\ RegularSurface(sl) /\ RegularSurface(tp)) =>
                /\ Len(RecordOf(r).data_vars) = 13 * Len(pl.vars) + Len(sl.vars) + Len(tp.vars)
                /\ \A j \in 1..Len(pl.vars) : \A l \in 1..13 :
                      Holds(RecordOf(r), pl.vars[j].name \o HPaText[l],
                            open_dataset(pl).data_vars[j].data.v[1][l])
                /\ \A j \in 1..Len(sl.vars) :
                      Holds(RecordOf(r), sl.vars[j].name, open_dataset(sl).data_vars[j].data.v[1])
                /\ \A j \in 1..Len(tp.vars) :
                      Holds(RecordOf(r), tp.vars[j].name, open_dataset(tp).data_vars[j].data.v[1])

\* a regular group of one pressure-level variable u, the surface variables t2m
\* and u100 and the precipitation variable tp was saved: 16 flat names, 15
\* variables in the record
C7_Witness ==
    \E i \in 1..Len(results) :
        /\ results[i].exc = ""
        /\ RegularPL(PLOf(results[i]))
        /\ RegularSurface(SLOf(results[i]))
        /\ RegularSurface(TPOf(results[i]))
        /\ Len(PLOf(results[i]).vars) = 1
        /\ Len(SLOf(results[i]).vars) = 2
        /\ Len(TPOf(results[i]).vars) = 1
        /\ Len(results[i].var_names) = 16
        /\ Len(RecordOf(results[i]).data_vars) = 15

\* C9: every source variable of a group whose dimensionality is not the expected
\* one (4-D for pressure-level, 3-D for surface and precipitation) is in the flat
\* variable list under its name
C9_OddDimsAppended ==
    \A i \in 1..Len(results) :
        results[i].flat =>
            /\ \A j \in 1..Len(PLOf(results[i]).vars) :
                  Len(PLOf(results[i]).vars[j].dims) # 4 =>
                      \E p \in 1..Len(results[i].var_names) :
                          results[i].var_names[p] = PLOf(results[i]).vars[j].name
            /\ \A j \in 1..Len(SLOf(results[i]).vars) :
                  Len(SLOf(results[i]).vars[j].dims) # 3 =>
                      \E p \in 1..Len(results[i].var_names) :
                          results[i].var_names[p] = SLOf(results[i]).vars[j].name
            /\ \A j \in 1..Len(TPOf(results[i]).vars) :
                  Len(TPOf(results[i]).vars[j].dims) # 3 =>
                      \E p \in 1..Len(results[i].var_names) :
                          results[i].var_names[p] = TPOf(results[i]).vars[j].name

\* a group whose pressure-level file holds a 4-D t and a 3-D u was saved without
\* exception, and no flat name starts with u
C9_Witness ==
    \E i \in 1..Len(results) :
        /\ results[i].exc = ""
        /\ Len(PLOf(results[i]).vars) = 2
        /\ PLOf(results[i]).vars[1] = [name |-> <<"t">>, dims |-> Dims4]
        /\ PLOf(results[i]).vars[2] = [name |-> <<"u">>, dims |-> Dims3L]
        /\ Len(results[i].var_names) = 13 + Len(SLOf(results[i]).vars) + Len(TPOf(results[i]).vars)
        /\ \A p \in 1..Len(results[i].var_names) : results[i].var_names[p][1] # "u"

\* C10: within every record written the flat variable names are pairwise
\* distinct, and the record holds one variable per entry of the flat list
C10_NamesDistinct ==
    \A i \in 1..Len(results) :
        results[i].exc = "" =>
            /\ \A p, q \in 1..Len(results[i].var_names) :
                  p # q => results[i].var_names[p] # results[i].var_names[q]
            /\ Len(RecordOf(results[i]).data_vars) = Len(results[i].var_names)

\* a record was saved for a group whose surface and precipitation files both
\* hold a variable t2m
C10_Witness ==
    \E i \in 1..Len(results) :
        /\ results[i].exc = ""
        /\ \E j \in 1..Len(SLOf(results[i]).vars) : SLOf(results[i]).vars[j].name = <<"t", "2", "m">>
        /\ \E j \in 1..Len(TPOf(results[i]).vars) : TPOf(results[i]).vars[j].name = <<"t", "2", "m">>
        /\ Era5Name(results[i].key) \in written

(***************************************************************************)
(* Error handling of merge_data (checked under Spec)                       *)
(***************************************************************************)

\* a bound that is given and is in neither of the two accepted formats
BadBound(time_str) == Given(time_str) /\ BoundOf(time_str) = NoneDt

\* C11: when a non-empty start_time or end_time matches neither
\* "YYYY-MM-DD HH:MM" nor "YYYYMMDD_HHMM", merge_data reports the parse failure
\* and returns before scanning: no file is scanned, no group is formed or
\* flattened, and no output file is written in that run
C11_BadBoundAborts ==
    (BadBound(start_time) \/ BadBound(end_time)) =>
        /\ pc \in {"start", "aborted"}
        /\ pc = "aborted" =>
              printed = <<IF BadBound(start_time) THEN <<"bad_start_time">>
                          ELSE <<"bad_end_time">>>>
        /\ all_files = <<>>
        /\ date_groups = <<>>
        /\ results = <<>>
        /\ written = {}
        /\ output_dir = <<>>
        /\ processed_count = 0

\* a run over a day of complete groups was aborted on its unparseable end_time,
\* the start_time being a good one
C11_Witness ==
    /\ pc = "aborted"
    /\ IsDay
    /\ ~BadBound(start_time)
    /\ Given(start_time)
    /\ BadBound(end_time)
    /\ printed = <<<<"bad_end_time">>>>

\* the complete groups among the first n groups of date_groups
CompleteUpTo(n) == {i \in 1..n : ~Incomplete(date_groups[i].files)}

\* C12: an exception raised while a complete group is processed is caught and
\* reported, the group is not counted as processed, every later group of the
\* mapping is still processed, and merge_data returns normally (it prints its
\* summary)
C12_GroupFailureContained ==
    /\ pc \in {"start", "scan_pl", "scan_sl", "scan_tp", "group", "loop", "done", "aborted", "off"}
    /\ pc = "aborted" => results = <<>>
    /\ pc \in {"loop", "done"} =>
          /\ Len(results) = Cardinality(CompleteUpTo(group_idx - 1))
          /\ processed_count = Len(results) - Cardinality({i \in 1..Len(results) : results[i].exc # ""})
          /\ \A i \in 1..Len(results) :
                results[i].exc # "" =>
                    /\ \E p \in 1..Len(printed) :
                          printed[p] = <<"error", results[i].key, results[i].exc>>
                    /\ ~Printed("saved", results[i].key)
    /\ pc = "done" =>
          /\ group_idx = Len(date_groups) + 1
          /\ printed[Len(printed)] = <<"summary", processed_count>>

\* a finished run in which a group raised and a later group was saved
C12_Witness ==
    /\ pc = "done"
    /\ \E i \in 1..Len(results) :
          /\ i < Len(results)
          /\ results[i].exc # ""
          /\ results[Len(results)].exc = ""
          /\ Era5Name(results[Len(results)].key) \in written

\* the try block of the group of result r ended in an exception before
\* to_netcdf was called: a source file could not be opened, a loop over the
\* variables raised, or np.stack or xr.Dataset raised
FlattenFailed(r) == r.exc # "" /\ (~r.flat \/ r.exc # "OSError")

\* C13: the output file of a group is created only after the flatten step of all
\* three source files has completed in memory: a step that processes a group
\* whose opening, flattening or stacking fails creates and modifies no file of
\* the output directory
C13_NoWriteBeforeFlatten ==
    [][(Len(results') = Len(results) + 1 /\ FlattenFailed(results'[Len(results')]))
           => (output_dir' = output_dir /\ written' = written)]_vars

\* groups failed in each phase (opening the tp file, a loop over the variables,
\* the stacking), none of them has a file, and another group was written
C13_Witness ==
    \E i \in 1..Len(results) :
        /\ FlattenFailed(results[i])
        /\ Era5Name(results[i].key) \notin DOMAIN output_dir
        /\ Era5Name(results[i].key) \notin written
        /\ \/ results[i].flat
           \/ results[i].exc = "OSError" /\ \E j \in 1..Len(results) : results[j].exc = ""

\* C14: a file whose extracted key does not parse as a date-time is excluded
\* from grouping in every run, with or without bounds: it is not in all_files,
\* no group has its key or holds it in a slot, nothing is reported about its key
\* and no group is processed under it
C14_UnparsedKeyDropped ==
    \A kind \in Kinds : \A stem \in DOMAIN DirOf(kind) :
        FileDt(stem) = NoneDt =>
            /\ \A i \in 1..Len(all_files) : all_files[i].file # stem
            /\ \A j \in 1..Len(date_groups) :
                  /\ date_groups[j].key # KeyOf(stem)
                  /\ date_groups[j].files[kind] # stem
            /\ \A i \in 1..Len(results) : results[i].key # KeyOf(stem)
            /\ ~Printed("skip", KeyOf(stem))
            /\ ~Printed("error", KeyOf(stem))
            /\ ~Printed("saved", KeyOf(stem))
            /\ Era5Name(KeyOf(stem)) \notin written

\* a run, with a start bound, over directories that each hold a file of key
\* 20180230_0000 next to the files of 06:00 has finished and merged one group
C14_Witness ==
    /\ pc = "done"
    /\ Given(start_time)
    /\ processed_count = 1
    /\ Len(date_groups) = 1
    /\ \A kind \in Kinds :
          /\ StemAt(<<"2", "0", "1", "8", "0", "2", "3", "0">>, T0000, kind) \in DOMAIN DirOf(kind)
          /\ FileDt(StemAt(<<"2", "0", "1", "8", "0", "2", "3", "0">>, T0000, kind)) = NoneDt

\* C15: after writing a record merge_data re-opens the written file and compares
\* its variable count with the count of the flat variable list; when the two
\* differ the mismatch is reported, the written file is kept, and the run goes on
\* with the next group
C15_MismatchReported ==
    \A i \in 1..Len(results) :
        (results[i].exc = "" /\
         Len(results[i].var_names) # Len(RecordOf(results[i]).data_vars)) =>
            /\ Printed("mismatch", results[i].key)
            /\ Era5Name(results[i].key) \in written
            /\ pc \in {"loop", "done"}

\* a group was saved and counted as processed with 16 flat variables in memory
\* and 15 variables in the re-opened file, and the run has finished
C15_Witness ==
    /\ pc = "done"
    /\ processed_count = 1
    /\ \E i \in 1..Len(results) :
          /\ results[i].exc = ""
          /\ Era5Name(results[i].key) \in written
          /\ \E p \in 1..Len(printed) : printed[p] = <<"saved", results[i].key, 16, 15>>

\* C16: each of the pl, sl and tp source handles opened for a group is closed by
\* the time the processing of that group ends, whether the record was written or
\* an exception was raised while flattening, stacking, writing or verifying
C16_HandlesClosed == open_handles = {}

\* the processing of a group raised at np.stack, after its three source files had
\* been opened, and the run has finished with the three handles still open
C16_Witness ==
    /\ pc = "done"
    /\ \E i \in 1..Len(results) :
          /\ results[i].exc = "ValueError"
          /\ results[i].flat
          /\ \A k \in Kinds : <<k, results[i].files[k]>> \in open_handles

(***************************************************************************)
(* The pipeline of run_complete_workflow (checked under SpecWorkflow)      *)
(***************************************************************************)

\* the threads of a kind that are running
Running(kind) == {t \in threads : t.kind = kind /\ t.state = "running"}

\* the main thread is between the start of the threads of an iteration and the
\* return of the second join
InIteration == wf_pc \in {"start_split", "join_download", "join_split"}

\* the log entries of the downloads and of the splits
LogOf(tag) == {k \in 1..Len(wf_log) : wf_log[k][1] = tag}

\* C17: in the multi-month workflow at most one download and at most one split
\* are in flight at any moment; in iteration i only the download of month i and
\* the split of month i-1 run; both threads have ended before the main thread
\* leaves the iteration, so before the next iteration starts a thread; and the
\* downloads and splits of the main thread (first month's download, last month's
\* split) run while no thread does
C17_OneDownloadOneSplit ==
    /\ Cardinality(Running("download")) <= 1
    /\ Cardinality(Running("split")) <= 1
    /\ \A t \in threads :
          t.state = "running" =>
              /\ InIteration
              /\ t.iter = wf_i
              /\ t.kind = "download" => current_month = download_list[wf_i]
              /\ t.kind = "split" => prev_month = download_list[wf_i - 1]
    /\ \A k \in LogOf("download") \cup LogOf("split") :
          LET who == wf_log[k][2]
              ym  == wf_log[k][3]
          IN  /\ (who > 0 /\ wf_log[k][1] = "download") => ym = download_list[who]
              /\ (who > 0 /\ wf_log[k][1] = "split") => ym = download_list[who - 1]
              /\ (who = 0 /\ wf_log[k][1] = "download") => ym = download_list[1]
              /\ (who = 0 /\ wf_log[k][1] = "split" /\ Len(download_list) > 1
                  /\ wf_log[k][4] # "raise") => ym = download_list[Len(download_list)]
    /\ wf_pc = "loop" =>
          {t.iter : t \in {u \in threads : u.kind = "download"}} = 2..(wf_i - 1)
    /\ wf_pc = "loop" =>
          {t.iter : t \in {u \in threads : u.kind = "split"}} = 2..(wf_i - 1)

\* in the third iteration the download of the third month and the split of the
\* second are both running
C17_Witness ==
    /\ wf_i = 3
    /\ Len(download_list) = 3
    /\ [kind |-> "download", iter |-> 3, state |-> "running"] \in threads
    /\ [kind |-> "split", iter |-> 3, state |-> "running"] \in threads
    /\ current_month = download_list[3]
    /\ prev_month = download_list[2]

\* C18: in the multi-month workflow a failure (exception) of a download or of a
\* split in either concurrent branch propagates: run_complete_workflow ends in
\* its error outcome and never reports the workflow as completed after it
C18_BranchFailurePropagates ==
    (\E t \in threads : t.state = "raised") =>
        /\ wf_pc \notin {"finish", "done"}
        /\ \A k \in 1..Len(wf_log) : wf_log[k][1] # "completed"

\* the download of the second of three months raised in its thread, the split of
\* that month raised in the next iteration's thread, and the workflow has
\* reported its completion
C18_Witness ==
    /\ wf_pc = "done"
    /\ Len(download_list) = 3
    /\ [kind |-> "download", iter |-> 2, state |-> "raised"] \in threads
    /\ [kind |-> "split", iter |-> 3, state |-> "raised"] \in threads
    /\ wf_log[Len(wf_log)] = <<"completed">>
    /\ download_list[2] \notin pl_files

\* the thread of the other kind started in the same iteration as t
Sibling(t) == {u \in threads : u.iter = t.iter /\ u.kind # t.kind}

\* C19: when one of the two concurrent branches fails, the sibling branch is not
\* cancelled: it is started if it was not yet, it runs to its own completion (its
\* own download or split is in the log), and the main thread takes no step
\* beyond the joins of that iteration until both branches have ended
C19_SiblingNotCancelled ==
    \A t \in threads :
        t.state = "raised" =>
            /\ (wf_i = t.iter /\ wf_pc = "start_split") => t.kind = "download"
            /\ (wf_i = t.iter /\ InIteration /\ \E u \in Sibling(t) : u.state = "running")
                  => wf_pc \in {"join_download", "join_split"}
            /\ (wf_i # t.iter \/ ~InIteration) =>
                  \E u \in Sibling(t) :
                      /\ u.state # "running"
                      /\ \E k \in LogOf(u.kind) : wf_log[k][2] = u.iter

\* the download of an iteration raised, the split of that iteration then ran and
\* succeeded, and the main thread has left the iteration
C19_Witness ==
    /\ wf_pc = "loop"
    /\ \E t \in threads :
          /\ t.kind = "download" /\ t.state = "raised" /\ t.iter < wf_i
          /\ \E k1, k2 \in 1..Len(wf_log) :
                /\ k1 < k2
                /\ wf_log[k1][1] = "download" /\ wf_log[k1][2] = t.iter /\ wf_log[k1][4] = "fail"
                /\ wf_log[k2][1] = "split" /\ wf_log[k2][2] = t.iter
                /\ wf_log[k2][4] \in {"wsl", "python"}

(***************************************************************************)
(* Two calls of merge_data over the same inputs (checked under SpecTwice)  *)
(***************************************************************************)

\* no file operation failed in either call
NoFaults == faults = 0 /\ first_run.faults = 0

\* C20: a second call of merge_data over the same unchanged input directories
\* and bounds leaves the same set of output files, each with the same ordered
\* flat variables (names and values), and reports the same processed count; it
\* writes the files the first call wrote, over them, and adds none
C20_Idempotent ==
    (run = 2 /\ pc \in {"done", "aborted"} /\ NoFaults) =>
        /\ DOMAIN output_dir = DOMAIN first_run.output_dir
        /\ \A f \in DOMAIN output_dir :
              /\ output_dir[f].data_vars = first_run.output_dir[f].data_vars
              /\ output_dir[f].attrs = first_run.output_dir[f].attrs
              /\ output_dir[f].coords = first_run.output_dir[f].coords
        /\ written = first_run.written
        /\ processed_count = first_run.processed_count
        /\ printed = first_run.printed

\* the second call has finished, both calls merged two groups into the same two
\* files
C20_Witness ==
    /\ run = 2
    /\ pc = "done"
    /\ NoFaults
    /\ processed_count = 2
    /\ first_run.processed_count = 2
    /\ Cardinality(written) = 2
    /\ DOMAIN output_dir = written

\* C21: when a run that passed bound parsing ends, the count of its final
\* summary is the number of complete groups whose processing finished without
\* an exception, which is at most the number of complete groups, which is at
\* most the number of groups found; the run has reported the number of groups
\* found (once, before the groups were processed) and ends with the summary
Succeeded == {i \in 1..Len(results) : results[i].exc = ""}

Grouped == pc \in {"loop", "done"}

C22_GroupsFromIncludedFiles ==
    Grouped =>
        /\ \A i \in 1..Len(date_groups) :
              LET g == date_groups[i]
              IN  /\ \E kind \in Kinds : g.files[kind] # None
                  /\ \A kind \in Kinds :
                        g.files[kind] # None =>
                            /\ g.files[kind] \in DOMAIN DirOf(kind)
                            /\ KeyOf(g.files[kind]) = g.key
                            /\ WithinBounds(g.files[kind])
        /\ \A i, j \in 1..Len(date_groups) :
              date_groups[i].key = date_groups[j].key => i = j
        /\ {date_groups[i].key : i \in 1..Len(date_groups)} = AllKeys

\* a mapping with a group that has a filled and an empty slot, built under a
\* bound that left out a file whose key parses
C22_Witness ==
    /\ Grouped
    /\ \E i \in 1..Len(date_groups) :
          /\ Incomplete(date_groups[i].files)
          /\ date_groups[i].files.pl # None
    /\ \E kind \in Kinds : \E stem \in DOMAIN DirOf(kind) :
          FileDt(stem) # NoneDt /\ ~WithinBounds(stem)

\* the included files of a kind that have the key
IncludedAs(kind, key) ==
    {stem \in DOMAIN DirOf(kind) : WithinBounds(stem) /\ KeyOf(stem) = key}

\* the one of the stems of S whose file name is the last in name order
LastNamed(S) ==
    CHOOSE x \in S : \A y \in S \ {x} :
        StrLess(y \o <<".", "n", "c">>, x \o <<".", "n", "c">>)

\* some kind has two included files or more of the key
Duplicated(key) == \E kind \in Kinds : Cardinality(IncludedAs(kind, key)) >= 2

\* C23: two or more included files of one kind with the same key are accepted
\* without error; the slot of that kind holds the last of them in the sorted
\* listing of the directory; and the key is processed and written at most once
C23_LastSeenWins ==
    Grouped =>
        /\ \A i \in 1..Len(date_groups) : \A kind \in Kinds :
              IncludedAs(kind, date_groups[i].key) # {} =>
                  date_groups[i].files[kind] = LastNamed(IncludedAs(kind, date_groups[i].key))
        /\ \A k \in {key \in AllKeys : Duplicated(key)} :
              /\ Cardinality({i \in 1..Len(date_groups) : date_groups[i].key = k}) = 1
              /\ Cardinality({i \in 1..Len(results) : results[i].key = k}) <= 1
              /\ Cardinality({i \in 1..Len(printed) :
                                printed[i][1] = "saved" /\ printed[i][2] = k}) <= 1
              /\ Cardinality({f \in written : f = Era5Name(k)}) <= 1
              /\ faults = 0 => \A i \in 1..Len(results) :
                                  results[i].key = k => results[i].exc = ""
              /\ (pc = "done" /\ faults = 0 /\ k \in CompleteKeys) =>
                     /\ Era5Name(k) \in written
                     /\ \E i \in 1..Len(results) :
                           /\ results[i].key = k
                           /\ \A kind \in Kinds :
                                 results[i].files[kind] = LastNamed(IncludedAs(kind, k))

\* a finished run that merged a key of which the pl directory holds two files
\* and wrote one file for it
C23_Witness ==
    /\ pc = "done"
    /\ \E k \in CompleteKeys :
          /\ Cardinality(IncludedAs("pl", k)) = 2
          /\ Era5Name(k) \in written
          /\ processed_count = 1

\* the months of the log entries of a tag, in the order of the log
IsDownloadEntry(e) == e[1] = "download"
IsSplitEntry(e) == e[1] = "split"
MonthsOf(entries) == [k \in 1..Len(entries) |-> entries[k][3]]
DownloadedMonths == MonthsOf(SelectSeq(wf_log, IsDownloadEntry))
SplitMonths == MonthsOf(SelectSeq(wf_log, IsSplitEntry))
IsPrefix(s, t) == Len(s) <= Len(t) /\ s = SubSeq(t, 1, Len(s))

\* C24: in a run of the pipelined workflow over months m1..mN in which nothing
\* fails, the downloads are of m1, m2, ... in list order, each month once, and so
\* are the splits; the split of a month starts only after the download of that
\* month has returned, and is given the file that download produced; when the
\* workflow completes every month has been downloaded once and split once
C24_PipelineOrder ==
    (wf_faults = 0 /\ Len(download_list) >= 2) =>
        /\ IsPrefix(DownloadedMonths, download_list)
        /\ IsPrefix(SplitMonths, download_list)
        /\ \A k \in LogOf("split") :
              /\ \E j \in 1..(k - 1) :
                    /\ wf_log[j][1] = "download"
                    /\ wf_log[j][3] = wf_log[k][3]
                    /\ wf_log[j][4] \in {"ok", "exists"}
              /\ wf_log[k][4] \in {"wsl", "python"}
              /\ wf_log[k][3] \in pl_files
        /\ SplitMonths # <<>> =>
              original_file = OriginalFileName(SplitMonths[Len(SplitMonths)])
        /\ \A t \in Running("split") :
              /\ prev_downloaded_file = OriginalFileName(prev_month)
              /\ prev_downloaded_file \in base_dir
              /\ DownloadedMonths # <<>>
              /\ prev_month \in {DownloadedMonths[j] : j \in 1..Len(DownloadedMonths)}
        /\ wf_pc \notin {"error"}
        /\ wf_pc = "done" =>
              /\ DownloadedMonths = download_list
              /\ SplitMonths = download_list

\* a workflow over three months has completed without a failure: three
\* downloads and three splits are in its log
C24_Witness ==
    /\ wf_pc = "done"
    /\ wf_faults = 0
    /\ Len(download_list) = 3
    /\ Len(DownloadedMonths) = 3
    /\ Len(SplitMonths) = 3

\* the four bounds are given
AllGiven == start_year # 0 /\ start_month # 0 /\ end_year # 0 /\ end_month # 0

\* the number of the month ym, counted from the month 1 of the year 0
MonthIndex(ym) == ym[1] * 12 + ym[2] - 1

\* list is the months from (sy, sm) through (ey, em), each once, in order
IsMonthRange(list, sy, sm, ey, em) ==
    /\ Len(list) =
          IF MonthIndex(<<ey, em>>) >= MonthIndex(<<sy, sm>>)
          THEN MonthIndex(<<ey, em>>) - MonthIndex(<<sy, sm>>) + 1 ELSE 0
    /\ \A k \in 1..Len(list) :
          /\ list[k][2] \in 1..12
          /\ MonthIndex(list[k]) = MonthIndex(<<sy, sm>>) + k - 1
    /\ \A k \in 1..(Len(list) - 1) :
          IF list[k][2] = 12
          THEN list[k + 1] = <<list[k][1] + 1, 1>>
          ELSE list[k + 1] = <<list[k][1], list[k][2] + 1>>
    /\ list # <<>> => list[1] = <<sy, sm>> /\ list[Len(list)] = <<ey, em>>

\* C25: with the four bounds given (months in 1..12) _generate_download_list
\* of either workflow returns the months from the start through the end, both
\* included, in strictly increasing order, each once, January of the next year
\* following December; it returns the empty list when the start is after the end
C25_DownloadList ==
    (wf_pc = "listed" /\ AllGiven) =>
        /\ IsMonthRange(download_list, start_year, start_month, end_year, end_month)
        /\ IsMonthRange(sl_download_list, start_year, start_month, end_year, end_month)
        /\ sl_download_list = download_list
        /\ MonthIndex(<<end_year, end_month>>) < MonthIndex(<<start_year, start_month>>)
              => download_list = <<>>

\* the list of the four months from 2018-11 through 2019-02 has been returned
C25_Witness ==
    /\ wf_pc = "listed"
    /\ start_year = 2018 /\ start_month = 11 /\ end_year = 2019 /\ end_month = 2
    /\ download_list = <<<<2018, 11>>, <<2018, 12>>, <<2019, 1>>, <<2019, 2>>>>
    /\ sl_download_list = download_list

\* the configured end month precedes the start month
EndBeforeStart ==
    /\ AllGiven
    /\ MonthIndex(<<end_year, end_month>>) < MonthIndex(<<start_year, start_month>>)

\* C26: when the configured end precedes the start, run_complete_workflow of
\* the pressure-level workflow performs no download and no split and completes
\* normally: it raises nothing
C26_EmptyRangeCompletes ==
    (EndBeforeStart /\ wf_pc # "start") =>
        /\ LogOf("download") = {} /\ LogOf("split") = {}
        /\ pl_files = {}
        /\ wf_pc \in {"finish", "done"}
        /\ LogOf("workflow_error") = {}

\* the workflow was run over a range whose end precedes its start, and has ended
C26_Witness ==
    /\ EndBeforeStart
    /\ download_list = <<>>
    /\ wf_pc \in {"done", "error"}
    /\ LogOf("download") = {} /\ LogOf("split") = {}

\* the split of the month ym has returned success
SplitSucceeded(log, ym) ==
    \E k \in 1..Len(log) :
        log[k][1] = "split" /\ log[k][3] = ym /\ log[k][4] \in {"wsl", "python"}

\* what the log and the directory say about the original files
KeptUnlessSplit ==
    /\ \A k \in LogOf("download") :
          wf_log[k][4] # "fail" =>
              \/ OriginalFileName(wf_log[k][3]) \in base_dir
              \/ SplitSucceeded(wf_log, wf_log[k][3])
    /\ \A k \in LogOf("split") :
          wf_log[k][4] = "failed" =>
              /\ OriginalFileName(wf_log[k][3]) \in base_dir
              /\ ~SplitSucceeded(wf_log, wf_log[k][3])
              /\ \A j \in LogOf("cleanup") : wf_log[j][3] # wf_log[k][3]
    /\ \A k \in LogOf("cleanup") :
          /\ k > 1
          /\ wf_log[k - 1][1] = "split"
          /\ wf_log[k - 1][2] = wf_log[k][2]
          /\ wf_log[k - 1][3] = wf_log[k][3]
          /\ wf_log[k - 1][4] \in {"wsl", "python"}

\* a step that removes a file removes the original file of a month whose split
\* has returned success
DeletesAfterSplit ==
    \A f \in base_dir \ base_dir' :
        \E ym \in {download_list[k] : k \in 1..Len(download_list)} :
            /\ f = OriginalFileName(ym)
            /\ SplitSucceeded(wf_log', ym)
            /\ ~SplitSucceeded(wf_log, ym)

\* C27: on the single-month path, in the pipeline and at the final split, the
\* original file of a month is deleted only after the split of that month
\* returned success, and is kept whenever the split returned failure
C27_CleanupOnlyAfterSplit == [](KeptUnlessSplit) /\ [][DeletesAfterSplit]_vars

\* a finished workflow in which the split of one month failed and its file is
\* there, and the split of another succeeded and its file is gone
C27_Witness ==
    /\ wf_pc = "done"
    /\ \E k \in LogOf("split") :
          wf_log[k][4] = "failed" /\ OriginalFileName(wf_log[k][3]) \in base_dir
    /\ \E k \in LogOf("cleanup") :
          wf_log[k][4] = "deleted" /\ OriginalFileName(wf_log[k][3]) \notin base_dir

\* the local split was called and has returned v
LocalSplitReturned(v) ==
    \E k \in 1..Len(sp_log) : sp_log[k] = Returned("python", v)

\* C28: _split_with_python_single_month returns success only if an output file
\* was created for every one of the (days in month x 4) timesteps; if the
\* output file of a timestep does not exist after its command the result is
\* failure
C28_LocalSplitAllCreated ==
    LocalSplitReturned("True") =>
        /\ success_count = TotalTimesteps(sp_ym)
        /\ sp_outputs = TotalTimesteps(sp_ym)

\* the local split of a month returned True although the files of some
\* timesteps do not exist
C28_Witness ==
    /\ sp_pc = "returned"
    /\ LocalSplitReturned("True")
    /\ sp_result = "True"
    /\ error_count = 0
    /\ success_count < TotalTimesteps(sp_ym)
    /\ sp_outputs < TotalTimesteps(sp_ym)

\* C29: split_data_to_pl_single_month raises, without attempting a split, when
\* the original file is None or missing; otherwise it calls the WSL split
\* first and the local split if and only if the WSL split returned False, after
\* it; it returns True when the WSL split returned True, and otherwise what the
\* local split returned
C29_WslThenLocal ==
    /\ \A k \in 1..Len(sp_log) :
          sp_log[k] = Called("python") =>
              k = 3 /\ sp_log[1] = Called("wsl") /\ sp_log[2] = Returned("wsl", "False")
    /\ sp_pc = "returned" =>
          IF sp_file = None \/ sp_file \notin base_dir
          THEN sp_result = "raise" /\ sp_log = <<>> /\ original_file = None
          ELSE /\ original_file = sp_file
               /\ Len(sp_log) >= 2
               /\ sp_log[1] = Called("wsl")
               /\ sp_log[2] = Returned("wsl", wsl_success)
               /\ wsl_success \in {"True", "False"}
               /\ wsl_success = "True" => sp_result = "True" /\ Len(sp_log) = 2
               /\ wsl_success = "False" =>
                     /\ Len(sp_log) = 4
                     /\ sp_log[3] = Called("python")
                     /\ sp_log[4] = Returned("python", sp_result)
                     /\ sp_result \in {"True", "False"}

\* a call whose WSL split returned False and whose local split then ran over
\* the month and returned False
C29_Witness ==
    /\ sp_pc = "returned"
    /\ sp_log = <<Called("wsl"), Returned("wsl", "False"),
                  Called("python"), Returned("python", "False")>>
    /\ sp_result = "False"
    /\ sp_i > TotalTimesteps(sp_ym)


\* the position of a month in the list of the surface-level workflow (0: none)
SLIndex(ym) ==
    IF \E k \in 1..Len(sl_download_list) : sl_download_list[k] = ym
    THEN CHOOSE k \in 1..Len(sl_download_list) : sl_download_list[k] = ym
    ELSE 0

SLMonthEntry(e) ==
    e[1] \in {"download", "extract", "split", "unrecognised", "remove"}

\* the entry that handling one listed file without error leaves
SLFileEntry(ym, kind) ==
    IF kind = "other" THEN <<"unrecognised", ym>>
    ELSE <<"split", ym, DataType(kind), "ok">>

\* entry p continues the handling of the month of entry p - 1, or starts the
\* month after it once its archive was deleted
SLInOrder(p) ==
    LET e == sl_log[p]
        k == SLIndex(e[2])
    IN  /\ k >= 1
        /\ IF e[1] = "download"
           THEN IF k = 1 THEN p = 1
                ELSE /\ p > 1
                     /\ sl_log[p - 1] = <<"remove", sl_download_list[k - 1], "ok">>
           ELSE /\ p > 1
                /\ sl_log[p - 1][1] \in {"download", "extract", "split", "unrecognised"}
                /\ sl_log[p - 1][2] = e[2]
                /\ e[1] = "extract" <=> sl_log[p - 1][1] = "download"
                /\ sl_log[p - 1][Len(sl_log[p - 1])] # "fail"

\* the archive of entry p was deleted after each of its files left the entry of
\* a handling without error
SLRemovedAfterAllSplit(p) ==
    LET ym == sl_log[p][2]
    IN  \E q \in 1..(p - 1) :
           /\ sl_log[q][1] = "extract"
           /\ sl_log[q][2] = ym
           /\ sl_log[q][3] = "ok"
           /\ p = q + Len(sl_log[q][4]) + 1
           /\ \A j \in 1..Len(sl_log[q][4]) :
                  sl_log[q + j] = SLFileEntry(ym, sl_log[q][4][j])

SLOrdered ==
    \A p \in 1..Len(sl_log) :
       /\ SLMonthEntry(sl_log[p]) => SLInOrder(p)
       /\ (sl_log[p][1] = "remove" /\ sl_log[p][3] = "ok") => SLRemovedAfterAllSplit(p)
       /\ sl_log[p] = <<"workflow_error">> => p = Len(sl_log)
       /\ (p > 1 /\ sl_log[p - 1][Len(sl_log[p - 1])] = "fail")
             => sl_log[p] = <<"workflow_error">>

\* the exception left run_complete_workflow: the archive of the month that
\* failed is there unless its download failed, and no later month has an entry
SLFailedKeepsArchive ==
    sl_pc = "error" =>
       /\ sl_log # <<>>
       /\ sl_log[Len(sl_log)] = <<"workflow_error">>
       /\ \A p \in 1..Len(sl_log) : sl_log[p] # <<"completed">>
       /\ sl_i <= Len(sl_download_list) =>
             /\ sl_log[Len(sl_log) - 1][2] = SLMonth
             /\ sl_log[Len(sl_log) - 1] # <<"download", SLMonth, "fail">>
                   => ArchiveName(SLMonth) \in download_dir
             /\ \A p \in 1..Len(sl_log) :
                    SLMonthEntry(sl_log[p]) => SLIndex(sl_log[p][2]) <= sl_i

\* an archive leaves download_dir only in the step that logs its deletion
SLDeletesOnlyInCleanup ==
    \A k \in 1..Len(sl_download_list) :
       (ArchiveName(sl_download_list[k]) \in download_dir
          /\ ArchiveName(sl_download_list[k]) \notin download_dir')
       => /\ sl_log' = sl_log \o <<<<"remove", sl_download_list[k], "ok">>>>
          /\ sl_todo = <<>>

\* C30: in the surface-level workflow the months are handled in list order, each
\* downloaded and then organized before the next one starts; the archive of a
\* month is deleted only after every recognised file of it was split without
\* error; when the download or the organizing of a month fails, the exception
\* leaves run_complete_workflow, the archive of that month is kept and no later
\* month is downloaded or organized.
C30_SLSequentialAndKeepsOnFailure ==
    /\ [](SLOrdered /\ SLFailedKeepsArchive)
    /\ [][SLDeletesOnlyInCleanup]_vars

\* the first month was organized and its archive deleted, then a file of the
\* second month failed to split and the archive of the second month is there
C30_Witness ==
    /\ sl_pc = "error"
    /\ sl_i = 2
    /\ Len(sl_download_list) >= 3
    /\ \E p \in 1..Len(sl_log) : sl_log[p] = <<"remove", sl_download_list[1], "ok">>
    /\ Len(sl_log) >= 2
    /\ sl_log[Len(sl_log) - 1] = <<"split", sl_download_list[2], "tp", "fail">>
    /\ ArchiveName(sl_download_list[1]) \notin download_dir
    /\ ArchiveName(sl_download_list[2]) \in download_dir

====
